---- MODULE Spec2Model ----
(***************************************************************************)
(* State-machine model of the `cached` key-value server                    *)
(* (src/cached/src): the TCP acceptor with its connection semaphore, the   *)
(* per-connection Handler, the storage actor (Db / MainDB) behind its      *)
(* bounded mailbox, and clients that talk to the server through the        *)
(* request/response frames of the wire protocol.                           *)
(*                                                                         *)
(* Option<T> is modelled as a set with at most one element: {} is None and *)
(* {x} is Some(x).  Strings are TLA+ strings, "" is the empty string.      *)
(***************************************************************************)
EXTENDS Integers, Sequences, FiniteSets, TLC

(* ------------------------------ bounds --------------------------------- *)
\* number of client connections that may be opened
NumClients == 2
\* number of distinct non-empty keys the clients use
NumKeys == 1
\* number of distinct non-empty values the clients use
NumValues == 2
\* the clock runs from 0 to MaxTime milliseconds; TTLs are drawn from 0..MaxTime
MaxTime == 2
\* total number of requests the clients send in one run with several connections
MaxRequests == 2
\* number of requests the client sends in one run with a single connection
MaxRequestsSolo == 3
\* largest value passed to Server::max_connections
MaxConfigured == 1
\* capacity of the storage actor's mailbox (32 in the code, scaled down so
\* that a full mailbox is reached)
MailboxCapacity == 1
\* logical clients sharing one ClientConnection
NumCallers == 2
\* calls made through one ClientConnection
MaxCalls == 2
\* capacity of the multiplexer's request channel (32 in the code)
MuxCapacity == 1

(* -------------------------- program constants -------------------------- *)
NO_TTL_INDICATOR == 0
DEFAULT_MAX_CONNECTIONS == 250

KeyPool == <<"a", "b", "c", "d">>
ValuePool == <<"v", "w", "x", "y">>
Keys == {KeyPool[i] : i \in 1..NumKeys}
Values == {ValuePool[i] : i \in 1..NumValues}
Clients == 1..NumClients
Times == 0..MaxTime

None == {}
Some(x) == {x}
Unwrap(o) == CHOOSE x \in o : TRUE

(* ------------------------------ domain --------------------------------- *)
\* TTLSinceUnixEpochInMillis::parse: Option<u128> -> u128 on the wire
TTL_parse(ttl) ==
    IF ttl = None THEN NO_TTL_INDICATOR
    ELSE IF Unwrap(ttl) = NO_TTL_INDICATOR THEN NO_TTL_INDICATOR
    ELSE Unwrap(ttl)

\* TTLSinceUnixEpochInMillis::into_ttl: u128 on the wire -> Option<u128>
TTL_into_ttl(raw) == IF raw = 0 THEN None ELSE Some(raw)

\* primitives.rs: OpCode as u8
OpCode(op) ==
    CASE op = "Set" -> 1 [] op = "Get" -> 2 [] op = "Delete" -> 3 [] op = "Flush" -> 4

\* The requests the client library builds (Client::get/set/delete/flush).
\* Key::parse and Value::parse accept every string up to the length caps.
Request_Get(k) == [op |-> "Get", key |-> k, value |-> "", ttl |-> None]
Request_Set(k, v, ttl) == [op |-> "Set", key |-> k, value |-> v, ttl |-> ttl]
Request_Delete(k) == [op |-> "Delete", key |-> k, value |-> "", ttl |-> None]
Request_Flush == [op |-> "Flush", key |-> "", value |-> "", ttl |-> None]

ClientTTLs == {None} \cup {Some(t) : t \in Times}

\* RequestFrame::try_from(Request) followed by Connection::write_request:
\* the header carries the op code, the key length and the TTL with the
\* NO_TTL_INDICATOR sentinel; key and value travel as raw bytes.
RequestFrame_from(req) ==
    [op_code |-> OpCode(req.op),
     key_length |-> Len(req.key),
     ttl |-> TTL_parse(req.ttl),
     key |-> req.key,
     value |-> req.value]

\* parse_request_frame: a zero-length key or value is decoded as absent.
parse_request_frame(bytes) ==
    [op_code |-> bytes.op_code,
     ttl |-> bytes.ttl,
     key |-> IF bytes.key_length = 0 THEN None ELSE Some(bytes.key),
     value |-> IF Len(bytes.value) = 0 THEN None ELSE Some(bytes.value)]

\* variant: a conversion that lets a Get or Delete carry a value
Request_try_from_lenient(frame) ==
    CASE frame.op_code = 1 ->
            IF frame.key = None THEN [ok |-> FALSE, err |-> "KeyMissing"]
            ELSE IF frame.value = None THEN [ok |-> FALSE, err |-> "ValueMissing"]
            ELSE [ok |-> TRUE,
                  req |-> Request_Set(Unwrap(frame.key), Unwrap(frame.value),
                                      TTL_into_ttl(frame.ttl))]
      [] frame.op_code = 2 ->
            IF frame.key = None THEN [ok |-> FALSE, err |-> "KeyMissing"]
            ELSE [ok |-> TRUE, req |-> Request_Get(Unwrap(frame.key))]
      [] frame.op_code = 3 ->
            IF frame.key = None THEN [ok |-> FALSE, err |-> "KeyMissing"]
            ELSE [ok |-> TRUE, req |-> Request_Delete(Unwrap(frame.key))]
      [] frame.op_code = 4 ->
            IF frame.key # None THEN [ok |-> FALSE, err |-> "UnexpectedKey"]
            ELSE IF frame.value # None THEN [ok |-> FALSE, err |-> "UnexpectedValue"]
            ELSE [ok |-> TRUE, req |-> Request_Flush]

\* Request::try_from(RequestFrame): Ok(request) or a Parse error.
Request_try_from(frame) ==
    CASE frame.op_code = 1 ->
            IF frame.key = None THEN [ok |-> FALSE, err |-> "KeyMissing"]
            ELSE IF frame.value = None THEN [ok |-> FALSE, err |-> "ValueMissing"]
            ELSE [ok |-> TRUE,
                  req |-> Request_Set(Unwrap(frame.key), Unwrap(frame.value),
                                      TTL_into_ttl(frame.ttl))]
      [] frame.op_code = 2 ->
            IF frame.value # None THEN [ok |-> FALSE, err |-> "UnexpectedValue"]
            ELSE IF frame.key = None THEN [ok |-> FALSE, err |-> "KeyMissing"]
            ELSE [ok |-> TRUE, req |-> Request_Get(Unwrap(frame.key))]
      [] frame.op_code = 3 ->
            IF frame.value # None THEN [ok |-> FALSE, err |-> "UnexpectedValue"]
            ELSE IF frame.key = None THEN [ok |-> FALSE, err |-> "KeyMissing"]
            ELSE [ok |-> TRUE, req |-> Request_Delete(Unwrap(frame.key))]
      [] frame.op_code = 4 ->
            IF frame.key # None THEN [ok |-> FALSE, err |-> "UnexpectedKey"]
            ELSE IF frame.value # None THEN [ok |-> FALSE, err |-> "UnexpectedValue"]
            ELSE [ok |-> TRUE, req |-> Request_Flush]

\* connection.rs read_request: decode the frame at the head of the buffer
read_request(bytes) == Request_try_from(parse_request_frame(bytes))

(* ------------------------------- bytes --------------------------------- *)
\* frame/header.rs: HEADER_SIZE_BYTES
HEADER_SIZE_BYTES == 23

\* the strings of the byte-level runs and their UTF-8 encoding
CodecKeys == {"", "a", "ab"}
CodecValues == {"", "v", "vw"}

\* str::as_bytes
as_bytes(str) ==
    CASE str = "" -> <<>>
      [] str = "a" -> <<97>>
      [] str = "ab" -> <<97, 98>>
      [] str = "b" -> <<98>>
      [] str = "c" -> <<99>>
      [] str = "d" -> <<100>>
      [] str = "v" -> <<118>>
      [] str = "vw" -> <<118, 119>>
      [] str = "w" -> <<119>>
      [] str = "x" -> <<120>>
      [] str = "y" -> <<121>>

\* String::from_utf8 on the bytes of one of the strings above
from_utf8(bytes) ==
    CHOOSE str \in CodecKeys \cup CodecValues \cup Keys \cup Values : as_bytes(str) = bytes

\* write_u128 / write_u32: big-endian, `width` bytes
RECURSIVE to_be_bytes(_, _)
to_be_bytes(n, width) ==
    IF width = 0 THEN <<>>
    ELSE Append(to_be_bytes(n \div 256, width - 1), n % 256)

\* be_u128 / be_u32
RECURSIVE from_be_bytes(_)
from_be_bytes(bytes) ==
    IF bytes = <<>> THEN 0
    ELSE from_be_bytes(SubSeq(bytes, 1, Len(bytes) - 1)) * 256 + bytes[Len(bytes)]

\* Connection::write_request after RequestFrame::try_from: op code, padding
\* byte, key length, TTL, total frame length, key bytes, value bytes
write_request(frame) ==
    <<frame.op_code, 0, frame.key_length>>
    \o to_be_bytes(frame.ttl, 16)
    \o to_be_bytes(HEADER_SIZE_BYTES + Len(as_bytes(frame.key)) + Len(as_bytes(frame.value)), 4)
    \o as_bytes(frame.key)
    \o as_bytes(frame.value)

\* parse_request_primitives with nom's streaming parsers: each field needs
\* its bytes or the parse is Incomplete; an unknown op code is an Error; a
\* total frame length below header + key underflows the usize subtraction
parse_request_primitives(input) ==
    IF Len(input) < 1 THEN [kind |-> "Incomplete"]
    ELSE IF input[1] \notin 1..4 THEN [kind |-> "Error"]
    ELSE IF Len(input) < HEADER_SIZE_BYTES THEN [kind |-> "Incomplete"]
    ELSE LET key_length == input[3]
             ttl == from_be_bytes(SubSeq(input, 4, 19))
             total_frame_length == from_be_bytes(SubSeq(input, 20, 23))
         IN  IF Len(input) < HEADER_SIZE_BYTES + key_length THEN [kind |-> "Incomplete"]
             ELSE IF total_frame_length < HEADER_SIZE_BYTES + key_length
             THEN [kind |-> "Underflow"]
             ELSE IF Len(input) < total_frame_length THEN [kind |-> "Incomplete"]
             ELSE [kind |-> "Ok",
                   primitive |->
                      [op_code |-> input[1],
                       key_length |-> key_length,
                       ttl |-> ttl,
                       key |-> from_utf8(SubSeq(input, HEADER_SIZE_BYTES + 1,
                                                HEADER_SIZE_BYTES + key_length)),
                       value |-> from_utf8(SubSeq(input, HEADER_SIZE_BYTES + key_length + 1,
                                                  total_frame_length))]]

\* RequestFrame::new: the total frame length of the decoded frame
total_frame_length(frame) ==
    HEADER_SIZE_BYTES
    + (IF frame.key = None THEN 0 ELSE Len(as_bytes(Unwrap(frame.key))))
    + (IF frame.value = None THEN 0 ELSE Len(as_bytes(Unwrap(frame.value))))

\* variant: a read_request that empties the buffer when it decodes a frame
read_request_buffer_draining(buffer) ==
    LET parsed == parse_request_primitives(buffer)
    IN  IF parsed.kind = "Incomplete"
        THEN [kind |-> "None", buffer |-> buffer]
        ELSE IF parsed.kind = "Ok"
        THEN LET frame == parse_request_frame(parsed.primitive)
             IN  [kind |-> "Frame",
                  frame |-> frame,
                  request |-> Request_try_from(frame),
                  buffer |-> <<>>]
        ELSE [kind |-> "Err", buffer |-> buffer]

\* connection.rs fn read_request on the read buffer: Ok(None) and an
\* untouched buffer when the frame is incomplete; otherwise the buffer is
\* advanced by the frame's length and the frame is converted to a Request
\* (an underflow of the value length is neither: read_forged settles it
\* by the way the server was built)
read_request_buffer(buffer) ==
    LET parsed == parse_request_primitives(buffer)
    IN  IF parsed.kind = "Incomplete"
        THEN [kind |-> "None", buffer |-> buffer]
        ELSE IF parsed.kind = "Ok"
        THEN LET frame == parse_request_frame(parsed.primitive)
             IN  [kind |-> "Frame",
                  frame |-> frame,
                  request |-> Request_try_from(frame),
                  buffer |-> SubSeq(buffer, total_frame_length(frame) + 1, Len(buffer))]
        ELSE IF parsed.kind = "Underflow"
        THEN [kind |-> "Underflow", buffer |-> buffer]
        ELSE [kind |-> "Err", buffer |-> buffer]

\* Response::new
Response_new(status, body) == [status |-> status, body |-> body]

\* primitives.rs: StatusCode
StatusCodes == {"Ok", "KeyNotFound", "KeyExists", "InternalError"}

\* response.rs ensure_key_and_value_are_none: None when both are absent
ensure_key_and_value_are_none(key, value) ==
    IF key # None THEN Some("UnexpectedKey")
    ELSE IF value # None THEN Some("UnexpectedValue")
    ELSE None

\* variant: a conversion that rejects every Get frame without key and value
Response_try_from_strict(frame) ==
    IF frame.op_code = 2
    THEN IF frame.key # None /\ frame.value # None
         THEN [ok |-> TRUE,
               resp |-> Response_new(frame.status,
                          [kind |-> "Get",
                           get |-> Some([key |-> Unwrap(frame.key),
                                         value |-> Unwrap(frame.value),
                                         ttl_since_unix_epoch_in_millis |->
                                             TTL_into_ttl(frame.ttl)])])]
         ELSE [ok |-> FALSE, err |-> "KeyAndValueMissing"]
    ELSE IF ensure_key_and_value_are_none(frame.key, frame.value) # None
    THEN [ok |-> FALSE, err |-> Unwrap(ensure_key_and_value_are_none(frame.key, frame.value))]
    ELSE [ok |-> TRUE,
          resp |-> Response_new(frame.status,
                     [kind |-> CASE frame.op_code = 1 -> "Set"
                                 [] frame.op_code = 3 -> "Delete"
                                 [] frame.op_code = 4 -> "Flush",
                      get |-> None])]

\* Response::try_from(ResponseFrame): Ok(response) or a Parse error
Response_try_from(frame) ==
    IF frame.op_code = 2
    THEN LET body_result ==
                 IF frame.key # None /\ frame.value # None
                 THEN [ok |-> TRUE,
                       body |-> Some([key |-> Unwrap(frame.key),
                                      value |-> Unwrap(frame.value),
                                      ttl_since_unix_epoch_in_millis |->
                                          TTL_into_ttl(frame.ttl)])]
                 ELSE IF frame.key # None THEN [ok |-> FALSE, err |-> "ValueMissing"]
                 ELSE IF frame.value # None THEN [ok |-> FALSE, err |-> "KeyMissing"]
                 ELSE [ok |-> FALSE, err |-> "KeyAndValueMissing"]
         IN  IF body_result.ok
             THEN [ok |-> TRUE,
                   resp |-> Response_new(frame.status,
                                         [kind |-> "Get", get |-> body_result.body])]
             ELSE IF frame.status = "Ok"
             THEN [ok |-> FALSE, err |-> body_result.err]
             ELSE [ok |-> TRUE,
                   resp |-> Response_new(frame.status, [kind |-> "Get", get |-> None])]
    ELSE IF ensure_key_and_value_are_none(frame.key, frame.value) # None
    THEN [ok |-> FALSE, err |-> Unwrap(ensure_key_and_value_are_none(frame.key, frame.value))]
    ELSE [ok |-> TRUE,
          resp |-> Response_new(frame.status,
                     [kind |-> CASE frame.op_code = 1 -> "Set"
                                 [] frame.op_code = 3 -> "Delete"
                                 [] frame.op_code = 4 -> "Flush",
                      get |-> None])]

(* --------------------------- storage (MainDB) -------------------------- *)
DbValue(value, ttl) == [value |-> value, ttl_since_unix_epoch_in_millis |-> ttl]

MapPut(m, k, x) == [j \in DOMAIN m \cup {k} |-> IF j = k THEN x ELSE m[j]]
MapDel(m, k) == [j \in DOMAIN m \ {k} |-> m[j]]
EmptyMap == [j \in {} |-> 0]

\* MainDB::new
MainDB_new == [db |-> EmptyMap, keys_with_ttl |-> {}]

\* variant: a get that removes an entry whose TTL equals the clock
MainDB_get_at_deadline(s, key, t) ==
    LET maybe_value == IF key \in DOMAIN s.db THEN Some(s.db[key]) ELSE None
        maybe_ttl == IF maybe_value = None THEN None
                     ELSE Unwrap(maybe_value).ttl_since_unix_epoch_in_millis
        ttl_has_expired == IF maybe_ttl = None THEN FALSE ELSE Unwrap(maybe_ttl) <= t
    IN  IF ttl_has_expired
        THEN [state |-> [db |-> MapDel(s.db, key),
                         keys_with_ttl |-> s.keys_with_ttl \ {key}],
              result |-> None]
        ELSE [state |-> s, result |-> maybe_value]

\* variant: a get that never looks at the TTL
MainDB_get_without_expiry(s, key, t) ==
    [state |-> s,
     result |-> IF key \in DOMAIN s.db THEN Some(s.db[key]) ELSE None]

\* MainDB::get at clock reading t: lazy expiry, then the cloned entry
MainDB_get(s, key, t) ==
    LET maybe_value == IF key \in DOMAIN s.db THEN Some(s.db[key]) ELSE None
        maybe_ttl == IF maybe_value = None THEN None
                     ELSE Unwrap(maybe_value).ttl_since_unix_epoch_in_millis
        ttl_has_expired == IF maybe_ttl = None THEN FALSE ELSE Unwrap(maybe_ttl) < t
    IN  IF ttl_has_expired
        THEN [state |-> [db |-> MapDel(s.db, key),
                         keys_with_ttl |-> s.keys_with_ttl \ {key}],
              result |-> None]
        ELSE [state |-> s, result |-> maybe_value]

\* variant: an insert that keeps the entry a key already has
MainDB_insert_if_absent(s, key, value, ttl, t) ==
    IF (ttl # None /\ Unwrap(ttl) <= t) \/ key \in DOMAIN s.db
    THEN s
    ELSE [db |-> MapPut(s.db, key, DbValue(value, ttl)),
          keys_with_ttl |-> IF ttl # None THEN s.keys_with_ttl \cup {key}
                            ELSE s.keys_with_ttl]

\* variant: an insert that stores an entry whose TTL equals the clock
MainDB_insert_strict(s, key, value, ttl, t) ==
    IF ttl # None /\ Unwrap(ttl) < t
    THEN s
    ELSE [db |-> MapPut(s.db, key, DbValue(value, ttl)),
          keys_with_ttl |-> IF ttl # None THEN s.keys_with_ttl \cup {key}
                            ELSE s.keys_with_ttl]

\* MainDB::insert at clock reading t
MainDB_insert(s, key, value, ttl, t) ==
    IF ttl # None /\ Unwrap(ttl) <= t
    THEN s
    ELSE [db |-> MapPut(s.db, key, DbValue(value, ttl)),
          keys_with_ttl |-> IF ttl # None THEN s.keys_with_ttl \cup {key}
                            ELSE s.keys_with_ttl]

\* variant: a remove that leaves the key in keys_with_ttl
MainDB_remove_main_only(s, key) ==
    [db |-> MapDel(s.db, key), keys_with_ttl |-> s.keys_with_ttl]

\* MainDB::remove
MainDB_remove(s, key) ==
    [db |-> MapDel(s.db, key), keys_with_ttl |-> s.keys_with_ttl \ {key}]

\* variant: a clear that leaves keys_with_ttl as it is
MainDB_clear_main_only(s) == [db |-> EmptyMap, keys_with_ttl |-> s.keys_with_ttl]

\* MainDB::clear
MainDB_clear(s) == [db |-> EmptyMap, keys_with_ttl |-> {}]

\* DbRequest variants
DbRequest_Get(k) == [kind |-> "Get", key |-> k, value |-> "", ttl |-> None]
DbRequest_Insert(k, v, ttl) == [kind |-> "Insert", key |-> k, value |-> v, ttl |-> ttl]
DbRequest_Remove(k) == [kind |-> "Remove", key |-> k, value |-> "", ttl |-> None]
DbRequest_ContainsKey(k) == [kind |-> "ContainsKey", key |-> k, value |-> "", ttl |-> None]
DbRequest_Clear == [kind |-> "Clear", key |-> "", value |-> "", ttl |-> None]

\* variant: a ContainsKey that answers false for an entry whose TTL elapsed
MainDB_handle_request_expiring(s, request, t) ==
    CASE request.kind = "Get" ->
            LET g == MainDB_get(s, request.key, t)
            IN  [state |-> g.state,
                 response |-> IF g.result = None THEN None
                              ELSE Some([kind |-> "Get", get |-> Unwrap(g.result)])]
      [] request.kind = "Insert" ->
            [state |-> MainDB_insert(s, request.key, request.value, request.ttl, t),
             response |-> None]
      [] request.kind = "ContainsKey" ->
            [state |-> s,
             response |-> Some([kind |-> "ContainsKey",
                                contains |-> MainDB_get(s, request.key, t).result # None])]
      [] request.kind = "Remove" ->
            [state |-> MainDB_remove(s, request.key), response |-> None]
      [] request.kind = "Clear" ->
            [state |-> MainDB_clear(s), response |-> None]

\* MainDB::handle_request: the new state and the Option<DbResponse>
MainDB_handle_request(s, request, t) ==
    CASE request.kind = "Get" ->
            LET g == MainDB_get(s, request.key, t)
            IN  [state |-> g.state,
                 response |-> IF g.result = None THEN None
                              ELSE Some([kind |-> "Get", get |-> Unwrap(g.result)])]
      [] request.kind = "Insert" ->
            [state |-> MainDB_insert(s, request.key, request.value, request.ttl, t),
             response |-> None]
      [] request.kind = "ContainsKey" ->
            [state |-> s,
             response |-> Some([kind |-> "ContainsKey",
                                contains |-> request.key \in DOMAIN s.db])]
      [] request.kind = "Remove" ->
            [state |-> MainDB_remove(s, request.key), response |-> None]
      [] request.kind = "Clear" ->
            [state |-> MainDB_clear(s), response |-> None]

\* variant: a caller that takes every reply for a miss
Db_get_result_dropped(replied) == None

\* Db::get on the caller's side: rx.await.ok().and_then(..)
Db_get_result(replied) ==
    IF replied # None /\ Unwrap(replied).kind = "Get"
    THEN Some(Unwrap(replied).get) ELSE None

\* Db::contains_key on the caller's side: rx.await.ok().map_or(false, ..)
Db_contains_key_result(replied) ==
    IF replied # None /\ Unwrap(replied).kind = "ContainsKey"
    THEN Unwrap(replied).contains ELSE FALSE

(* ------------------------------- state --------------------------------- *)
VARIABLES
    now,            \* SystemTime::now() in milliseconds since the epoch
    main_db,        \* MainDB owned by the actor: [db, keys_with_ttl]
    mailbox,        \* mpsc channel of DbRequestWithResponder, FIFO
    db_closed,      \* the task of Db::run has ended and dropped the receiver
    reply,          \* per handler: the oneshot result, None until the actor sent it
    max_connections,\* ServerBuilder.max_connections: Option<usize>
    permits,        \* permits available in connection_limit
    acceptor,       \* position of Server::run: in serve() at "acquire" or "accept",
                    \* "stopped" (waiting for the handlers), "returned"
    backlog,        \* TCP connections established but not yet accepted, in order
    conn,           \* per client: "new", "open", "closed" (the client's side)
    wire,           \* per client: request frame written and not yet read by the server
    answer,         \* per client: status of the response to its outstanding request
    hpc,            \* per handler: "none","read","send","await","send2","write","done"
    cur,            \* per handler: the request being handled (Option)
    resp,           \* per handler: the response about to be written (Option)
    sent,           \* number of requests sent so far
    \* history variables, written but never read by the program's steps
    asked,          \* per client: the Request it passed to the library (Option)
    readAt,         \* per handler: clock reading when the request was read (Option)
    okAtRead,       \* per handler: lastOk of the key of its Get when the request
                    \* was read (Option)
    seen,           \* per handler: what the actor saw when it served the
                    \* handler's Get or ContainsKey (Option)
    applied,        \* per key: the last Insert that stored an entry, forgotten
                    \* when a Remove of the key or a Clear is applied (Option)
    racers,         \* per key: handlers whose Set saw the key absent, since the
                    \* key was last removed
    okd,            \* per key: the racers whose Set was answered Ok
    lastOk,         \* per key: the last Set/Delete/Flush answered Ok, and by
                    \* which handler (Option)
    \* the client library's multiplexer task on connection MuxConn
    senders,        \* the handles that hold a clone of the mpsc sender
    queue,          \* mpsc channel of RequestResponder, FIFO
    muxpc,          \* the task: "recv" (at rx.recv()), "await" (in send_request), "exited"
    mcur,           \* the RequestResponder the task is serving (Option)
    calls,          \* history: every call made, [caller, request, rx, frame, res]
    inflight,       \* history: requests written whose send_request has not returned
    nframes,        \* history: number of response frames the task has read
    \* a Connection's read buffer fed from a byte stream
    codec           \* [input, stream, fed, buffer, decoded, failed, closed]

vars == <<now, main_db, db_closed, mailbox, reply, max_connections, permits, acceptor,
          backlog, conn, wire, answer, hpc, cur, resp, sent,
          asked, readAt, okAtRead, seen, applied, racers, okd, lastOk,
          senders, queue, muxpc, mcur, calls, inflight, nframes, codec>>

actorv == <<main_db, db_closed, reply, seen, applied, racers>>
serverv == <<max_connections, permits, acceptor, backlog>>
handlerv == <<hpc, cur, resp, readAt, okAtRead>>
clientv == <<conn, wire, answer, sent, asked>>
muxv == <<senders, queue, muxpc, mcur, calls, inflight, nframes>>
libv == <<muxv, codec>>

\* Semaphore::new(self.builder.max_connections.unwrap_or(250))
\* the connection the ClientConnection under study owns
MuxConn == 1
\* the logical clients made with Client::with_connection
Callers == 1..NumCallers
\* the values that hold a clone of the sender: the ClientConnection (0) and
\* the Clients
Handles == {0} \cup Callers

ConnectionLimit(cfg) == IF cfg = None THEN DEFAULT_MAX_CONNECTIONS ELSE Unwrap(cfg)

Live(c) == hpc[c] \in {"read", "send", "await", "send2", "write"}
LiveHandlers == {c \in Clients : Live(c)}

\* State after Server::new().max_connections(..).bind(..) and the start of
\* Server::run: Db::new() spawned the actor with an empty MainDB.
\* Connection::new: an empty read buffer in front of the byte stream
Connection_new(input, stream) ==
    [input |-> input, stream |-> stream, fed |-> 0, buffer |-> <<>>,
     decoded |-> <<>>, failed |-> FALSE, closed |-> None]

InitStateWith(configs, stored) ==
    /\ now = 0
    /\ main_db = stored
    /\ db_closed = FALSE
    /\ mailbox = <<>>
    /\ reply = [c \in Clients |-> None]
    /\ max_connections \in configs
    /\ permits = ConnectionLimit(max_connections)
    /\ acceptor = "acquire"
    /\ backlog = <<>>
    /\ conn = [c \in Clients |-> "new"]
    /\ wire = [c \in Clients |-> None]
    /\ answer = [c \in Clients |-> None]
    /\ hpc = [c \in Clients |-> "none"]
    /\ cur = [c \in Clients |-> None]
    /\ resp = [c \in Clients |-> None]
    /\ sent = 0
    /\ asked = [c \in Clients |-> None]
    /\ readAt = [c \in Clients |-> None]
    /\ okAtRead = [c \in Clients |-> None]
    /\ seen = [c \in Clients |-> None]
    /\ applied = [k \in Keys |->
                    IF k \in DOMAIN stored.db
                    THEN Some([value |-> stored.db[k].value,
                               ttl |-> stored.db[k].ttl_since_unix_epoch_in_millis])
                    ELSE None]
    /\ racers = [k \in Keys |-> {}]
    /\ okd = [k \in Keys |-> {}]
    /\ lastOk = [k \in Keys |-> None]
    /\ senders = Handles
    /\ queue = <<>>
    /\ muxpc = "recv"
    /\ mcur = None
    /\ calls = <<>>
    /\ inflight = 0
    /\ nframes = 0

\* Db::new: the actor starts with MainDB::new()
InitState(configs) == InitStateWith(configs, MainDB_new)

InitWith(configs) ==
    /\ InitState(configs)
    /\ codec = Connection_new(None, <<>>)

Configs == {None} \cup {Some(n) : n \in 1..MaxConfigured}

\* the server runs with the default connection limit
Init == InitWith({None})

\* the server runs with any configured connection limit
InitServer == InitWith(Configs)

(* ------------------------------- clock --------------------------------- *)
Tick ==
    /\ now < MaxTime
    /\ now' = now + 1
    /\ UNCHANGED <<libv, actorv, mailbox, okd, lastOk, serverv, handlerv, clientv>>

(* ------------------------------ clients -------------------------------- *)
\* ClientConnection::new: TcpStream::connect succeeds as soon as the kernel
\* queues the connection; the server accepts it later.  Clients are numbered
\* in the order in which they connect.
ClientConnect(c) ==
    /\ conn[c] = "new"
    /\ \A d \in Clients : d < c => conn[d] # "new"
    /\ conn' = [conn EXCEPT ![c] = "open"]
    /\ backlog' = Append(backlog, c)
    /\ UNCHANGED <<libv, now, actorv, mailbox, okd, lastOk, max_connections, permits,
                   acceptor, handlerv, wire, answer, sent, asked>>

\* Connection::send_request, first half: write_request.  One request is
\* outstanding per connection: the next one is written only after the
\* response to the previous one was read.  At most `limit` requests are sent.
ClientSend(c, req, limit) ==
    /\ conn[c] = "open"
    /\ wire[c] = None
    /\ hpc[c] \in {"none", "read"}
    /\ sent < limit
    /\ wire' = [wire EXCEPT ![c] = Some(RequestFrame_from(req))]
    /\ asked' = [asked EXCEPT ![c] = Some(req)]
    /\ answer' = [answer EXCEPT ![c] = None]
    /\ sent' = sent + 1
    /\ UNCHANGED <<libv, now, actorv, mailbox, okd, lastOk, serverv, handlerv, conn>>

\* The client side of the connection goes away (handle dropped, process
\* ended): the server reads end-of-file once the buffered bytes are consumed.
ClientClose(c) ==
    /\ conn[c] = "open"
    /\ conn' = [conn EXCEPT ![c] = "closed"]
    /\ UNCHANGED <<libv, now, actorv, mailbox, okd, lastOk, serverv, handlerv,
                   wire, answer, sent, asked>>

\* The Client handle is dropped: the multiplexer task of ClientConnection
\* finishes the request it is serving, then ends and closes the stream.
ClientDrop(c) ==
    /\ wire[c] = None
    /\ hpc[c] \in {"none", "read"}
    /\ ClientClose(c)

(* ------------------------------ acceptor ------------------------------- *)
\* variant: an acceptor that goes on to accept without taking a permit
AcceptorAcquire_without_permit ==
    /\ acceptor = "acquire"
    /\ acceptor' = "accept"
    /\ UNCHANGED <<libv, now, actorv, mailbox, okd, lastOk, max_connections, permits,
                   backlog, handlerv, clientv>>

\* ServerInner::serve: connection_limit.acquire().await?.forget()
AcceptorAcquire ==
    /\ acceptor = "acquire"
    /\ permits > 0
    /\ permits' = permits - 1
    /\ acceptor' = "accept"
    /\ UNCHANGED <<libv, now, actorv, mailbox, okd, lastOk, max_connections, backlog,
                   handlerv, clientv>>

\* variant: an acceptor that accepts whether or not it has taken a permit
AcceptorAccept_unreserved ==
    /\ acceptor \in {"acquire", "accept"}
    /\ backlog # <<>>
    /\ hpc' = [hpc EXCEPT ![Head(backlog)] = "read"]
    /\ backlog' = Tail(backlog)
    /\ acceptor' = "acquire"
    /\ UNCHANGED <<libv, now, actorv, mailbox, okd, lastOk, max_connections, permits,
                   cur, resp, readAt, okAtRead, clientv>>

\* ServerInner::serve: listener.accept(), build the Handler, tokio::spawn
AcceptorAccept ==
    /\ acceptor = "accept"
    /\ backlog # <<>>
    /\ hpc' = [hpc EXCEPT ![Head(backlog)] = "read"]
    /\ backlog' = Tail(backlog)
    /\ acceptor' = "acquire"
    /\ UNCHANGED <<libv, now, actorv, mailbox, okd, lastOk, max_connections, permits,
                   cur, resp, readAt, okAtRead, clientv>>

\* Server::run: ctrl_c wins the select!, the serve() future is dropped and
\* notify_shutdown is dropped, which wakes every Shutdown::recv.
CtrlC ==
    /\ acceptor \in {"acquire", "accept"}
    /\ acceptor' = "stopped"
    /\ UNCHANGED <<libv, now, actorv, mailbox, okd, lastOk, max_connections, permits,
                   backlog, handlerv, clientv>>

\* variant: a run that returns without waiting for the handlers
ServerReturn_without_wait ==
    /\ acceptor = "stopped"
    /\ acceptor' = "returned"
    /\ UNCHANGED <<libv, now, actorv, mailbox, okd, lastOk, max_connections, permits,
                   backlog, handlerv, clientv>>

\* Server::run after the select!: notify_shutdown and the supervisor's
\* shutdown_complete_tx are dropped, then shutdown_complete_rx.recv() is
\* awaited; it returns None once every Handler, each holding a clone of the
\* sender in _shutdown_complete, has been dropped.
ServerReturn ==
    /\ acceptor = "stopped"
    /\ LiveHandlers = {}
    /\ acceptor' = "returned"
    /\ UNCHANGED <<libv, now, actorv, mailbox, okd, lastOk, max_connections, permits,
                   backlog, handlerv, clientv>>

(* ------------------------------ handler -------------------------------- *)
\* variant: a handler that gives two permits back when it ends
Handler_drop_twice(p) == p + 2

\* variant: a handler that ends without giving its permit back
Handler_drop_leaking(p) == p

\* impl Drop for Handler: connection_limit.add_permits(1)
Handler_drop(p) == p + 1

\* The first message Handler::handle_request sends for a request
FirstMessage(req) ==
    CASE req.op = "Get" -> DbRequest_Get(req.key)
      [] req.op = "Set" -> DbRequest_ContainsKey(req.key)
      [] req.op = "Delete" -> DbRequest_ContainsKey(req.key)
      [] req.op = "Flush" -> DbRequest_Clear

\* The second message of a Set (Insert) or a Delete (Remove)
SecondMessage(req) ==
    IF req.op = "Set" THEN DbRequest_Insert(req.key, req.value, req.ttl)
    ELSE DbRequest_Remove(req.key)

\* Db::get and Db::contains_key keep the receiver of the oneshot channel;
\* Db::insert, Db::remove and Db::clear drop it at once.
AwaitsReply(msg) == msg.kind \in {"Get", "ContainsKey"}

\* DbRequestWithResponder
Envelope(msg, c) == [request |-> msg, responder |-> c, listening |-> AwaitsReply(msg)]

\* mpsc::Sender::send: the message joins the back of the queue
Mailbox_send(q, env) == Append(q, env)

\* variant: a Get arm that leaves the TTL out of the body
Handler_get_response_without_ttl(key, val) ==
    IF val # None
    THEN Response_new("Ok",
           [kind |-> "Get",
            get |-> Some([key |-> key,
                          value |-> Unwrap(val).value,
                          ttl_since_unix_epoch_in_millis |-> None])])
    ELSE Response_new("KeyNotFound", [kind |-> "Get", get |-> None])

\* Handler::handle_request, Request::Get arm
Handler_get_response(key, val) ==
    IF val # None
    THEN Response_new("Ok",
           [kind |-> "Get",
            get |-> Some([key |-> key,
                          value |-> Unwrap(val).value,
                          ttl_since_unix_epoch_in_millis |->
                              Unwrap(val).ttl_since_unix_epoch_in_millis])])
    ELSE Response_new("KeyNotFound", [kind |-> "Get", get |-> None])

\* variant: a Set arm that ignores the ContainsKey answer
Handler_set_status_unchecked(contains) == "Ok"

\* Handler::handle_request, Request::Set arm: status for the ContainsKey answer
Handler_set_status(contains) == IF contains THEN "KeyExists" ELSE "Ok"

\* Handler::handle_request, Request::Delete arm: status for the ContainsKey answer
Handler_delete_status(contains) == IF ~contains THEN "KeyNotFound" ELSE "Ok"

\* Handler::handle_request, Request::Flush arm
Handler_flush_response == Response_new("Ok", [kind |-> "Flush", get |-> None])

\* Handler::handle_request: the response of a Set or Delete
Handler_plain_response(req, status) == Response_new(status, [kind |-> req.op, get |-> None])

\* handle_request up to its first await on a reply (or to its end, for Flush)
StartRequest(c, req) ==
    /\ mailbox' = Mailbox_send(mailbox, Envelope(FirstMessage(req), c))
    /\ IF AwaitsReply(FirstMessage(req))
       THEN /\ hpc' = [hpc EXCEPT ![c] = "await"]
            /\ resp' = resp
       ELSE /\ hpc' = [hpc EXCEPT ![c] = "write"]
            /\ resp' = [resp EXCEPT ![c] = Some(Handler_flush_response)]

\* history: the last Set answered Ok for the key of a Get, as it stood
\* when the handler read the Get
OkAtRead(req, track) ==
    IF track /\ req.op = "Get" /\ req.key \in Keys /\ lastOk[req.key] # None
       /\ Unwrap(lastOk[req.key]).op = "Set"
    THEN lastOk[req.key]
    ELSE None

\* variant: a handler that answers a request it cannot decode before it ends
HandlerRead_answering_errors(c, track) ==
    /\ hpc[c] = "read"
    /\ wire[c] # None
    /\ LET res == read_request(Unwrap(wire[c]))
       IN  IF ~res.ok
           THEN /\ hpc' = [hpc EXCEPT ![c] = "done"]
                /\ permits' = Handler_drop(permits)
                /\ answer' = [answer EXCEPT ![c] = Some("KeyNotFound")]
                /\ UNCHANGED <<cur, resp, mailbox, readAt, okAtRead>>
           ELSE /\ cur' = [cur EXCEPT ![c] = Some(res.req)]
                /\ readAt' = [readAt EXCEPT ![c] = IF track THEN Some(now) ELSE None]
                /\ okAtRead' = [okAtRead EXCEPT ![c] = OkAtRead(res.req, track)]
                /\ permits' = permits
                /\ answer' = answer
                /\ IF Len(mailbox) < MailboxCapacity
                   THEN StartRequest(c, res.req)
                   ELSE /\ hpc' = [hpc EXCEPT ![c] = "send"]
                        /\ UNCHANGED <<mailbox, resp>>
    /\ wire' = [wire EXCEPT ![c] = None]
    /\ UNCHANGED <<libv, now, actorv, okd, lastOk, max_connections, acceptor, backlog,
                   conn, sent, asked>>

\* Handler::run, select! branch read_request: a complete frame is decoded;
\* a decode error is unwrapped and aborts the handler task, whose Drop
\* returns the permit.  Otherwise handle_request starts and sends its first
\* message if the mailbox has room.  (track: record the history variables
\* readAt and lastOk, which the single-connection properties read.)
HandlerRead(c, track) ==
    /\ hpc[c] = "read"
    /\ wire[c] # None
    /\ LET res == read_request(Unwrap(wire[c]))
       IN  IF ~res.ok
           THEN /\ hpc' = [hpc EXCEPT ![c] = "done"]
                /\ permits' = Handler_drop(permits)
                /\ UNCHANGED <<cur, resp, mailbox, readAt, okAtRead>>
           ELSE /\ cur' = [cur EXCEPT ![c] = Some(res.req)]
                /\ readAt' = [readAt EXCEPT ![c] = IF track THEN Some(now) ELSE None]
                /\ okAtRead' = [okAtRead EXCEPT ![c] = OkAtRead(res.req, track)]
                /\ permits' = permits
                /\ IF Len(mailbox) < MailboxCapacity
                   THEN StartRequest(c, res.req)
                   ELSE /\ hpc' = [hpc EXCEPT ![c] = "send"]
                        /\ UNCHANGED <<mailbox, resp>>
    /\ wire' = [wire EXCEPT ![c] = None]
    /\ UNCHANGED <<libv, now, actorv, okd, lastOk, max_connections, acceptor, backlog,
                   conn, answer, sent, asked>>

\* Handler::run, read_request returns Ok(None): the peer closed and the
\* buffer is empty; the loop breaks and the handler is dropped.
HandlerEof(c) ==
    /\ hpc[c] = "read"
    /\ wire[c] = None
    /\ conn[c] = "closed"
    /\ hpc' = [hpc EXCEPT ![c] = "done"]
    /\ permits' = Handler_drop(permits)
    /\ UNCHANGED <<libv, now, actorv, mailbox, okd, lastOk, max_connections, acceptor,
                   backlog, cur, resp, readAt, okAtRead, clientv>>

\* Handler::run, select! branch shutdown.recv(): return, handler dropped.
HandlerShutdown(c) ==
    /\ hpc[c] = "read"
    /\ acceptor = "stopped"
    /\ hpc' = [hpc EXCEPT ![c] = "done"]
    /\ permits' = Handler_drop(permits)
    /\ UNCHANGED <<libv, now, actorv, mailbox, okd, lastOk, max_connections, acceptor,
                   backlog, cur, resp, readAt, okAtRead, clientv>>

\* request_sender.send(..).await completes once the mailbox has room:
\* the first message of a request that found the mailbox full.
HandlerSend(c) ==
    /\ hpc[c] = "send"
    /\ Len(mailbox) < MailboxCapacity
    /\ StartRequest(c, Unwrap(cur[c]))
    /\ UNCHANGED <<libv, now, actorv, okd, lastOk, serverv, cur, readAt, okAtRead, clientv>>

\* variant: a Set or Delete that sends its Insert or Remove whatever the
\* ContainsKey answer was
FinishRequest_always_sending(c, req, contains) ==
    LET status == IF req.op = "Set" THEN Handler_set_status(contains)
                  ELSE Handler_delete_status(contains)
    IN  IF Len(mailbox) < MailboxCapacity
        THEN /\ mailbox' = Mailbox_send(mailbox, Envelope(SecondMessage(req), c))
             /\ resp' = [resp EXCEPT ![c] = Some(Handler_plain_response(req, status))]
             /\ hpc' = [hpc EXCEPT ![c] = "write"]
        ELSE /\ hpc' = [hpc EXCEPT ![c] = "send2"]
             /\ UNCHANGED <<mailbox, resp>>

\* handle_request of a Set or Delete after the ContainsKey answer: either
\* the response is ready, or the Insert/Remove is sent first
FinishRequest(c, req, contains) ==
    LET status == IF req.op = "Set" THEN Handler_set_status(contains)
                  ELSE Handler_delete_status(contains)
    IN  IF status # "Ok"
        THEN /\ resp' = [resp EXCEPT ![c] = Some(Handler_plain_response(req, status))]
             /\ hpc' = [hpc EXCEPT ![c] = "write"]
             /\ mailbox' = mailbox
        ELSE IF Len(mailbox) < MailboxCapacity
        THEN /\ mailbox' = Mailbox_send(mailbox, Envelope(SecondMessage(req), c))
             /\ resp' = [resp EXCEPT ![c] = Some(Handler_plain_response(req, "Ok"))]
             /\ hpc' = [hpc EXCEPT ![c] = "write"]
        ELSE /\ hpc' = [hpc EXCEPT ![c] = "send2"]
             /\ UNCHANGED <<mailbox, resp>>

\* Handler::handle_request resumes when the actor's reply arrived
HandlerReply(c) ==
    /\ hpc[c] = "await"
    /\ reply[c] # None
    /\ LET req == Unwrap(cur[c])
           replied == Unwrap(reply[c])
       IN  IF req.op = "Get"
           THEN /\ resp' = [resp EXCEPT ![c] =
                             Some(Handler_get_response(req.key, Db_get_result(replied)))]
                /\ hpc' = [hpc EXCEPT ![c] = "write"]
                /\ mailbox' = mailbox
           ELSE FinishRequest(c, req, Db_contains_key_result(replied))
    /\ reply' = [reply EXCEPT ![c] = None]
    /\ UNCHANGED <<libv, now, main_db, db_closed, seen, applied, racers, okd, lastOk, serverv,
                   cur, readAt, okAtRead, clientv>>

\* request_sender.send(..).await of an Insert or Remove that found the
\* mailbox full completes once there is room.
HandlerSend2(c) ==
    /\ hpc[c] = "send2"
    /\ Len(mailbox) < MailboxCapacity
    /\ mailbox' = Mailbox_send(mailbox, Envelope(SecondMessage(Unwrap(cur[c])), c))
    /\ resp' = [resp EXCEPT ![c] = Some(Handler_plain_response(Unwrap(cur[c]), "Ok"))]
    /\ hpc' = [hpc EXCEPT ![c] = "write"]
    /\ UNCHANGED <<libv, now, actorv, okd, lastOk, serverv, cur, readAt, okAtRead, clientv>>

\* history: the last mutation of key k that was answered Ok
LastOkAfter(k, c) ==
    LET req == Unwrap(asked[c])
        r == Unwrap(resp[c])
    IN  IF r.status = "Ok" /\ req.op = "Flush"
        THEN Some([op |-> "Flush", value |-> "", ttl |-> None, past |-> FALSE,
                   rejected |-> FALSE, by |-> c])
        ELSE IF r.status = "Ok" /\ req.op \in {"Set", "Delete"} /\ req.key = k
        THEN Some([op |-> req.op, value |-> req.value, ttl |-> req.ttl,
                   past |-> req.ttl # None /\ Unwrap(req.ttl) <= Unwrap(readAt[c]),
                   rejected |-> FALSE, by |-> c])
        ELSE IF r.status = "KeyExists" /\ req.key = k /\ lastOk[k] # None
        THEN Some([Unwrap(lastOk[k]) EXCEPT !.rejected = TRUE])
        ELSE lastOk[k]

\* variant: a handler that goes back to reading without writing the response
HandlerWrite_skipping(c, track) ==
    /\ hpc[c] = "write"
    /\ \/ /\ conn[c] = "open"
          /\ answer' = answer
          /\ hpc' = [hpc EXCEPT ![c] = "read"]
          /\ permits' = permits
       \/ /\ conn[c] = "closed"
          /\ answer' = answer
          /\ \/ /\ hpc' = [hpc EXCEPT ![c] = "read"]
                /\ permits' = permits
             \/ /\ hpc' = [hpc EXCEPT ![c] = "done"]
                /\ permits' = Handler_drop(permits)
    /\ lastOk' = [k \in Keys |-> IF track THEN LastOkAfter(k, c) ELSE lastOk[k]]
    /\ okd' = [k \in Keys |->
                 IF /\ Unwrap(cur[c]).op = "Set" /\ Unwrap(cur[c]).key = k
                    /\ Unwrap(resp[c]).status = "Ok" /\ c \in racers[k]
                 THEN okd[k] \cup {c} ELSE okd[k]]
    /\ cur' = [cur EXCEPT ![c] = None]
    /\ resp' = [resp EXCEPT ![c] = None]
    /\ seen' = [seen EXCEPT ![c] = None]
    /\ readAt' = [readAt EXCEPT ![c] = None]
    /\ okAtRead' = [okAtRead EXCEPT ![c] = None]
    /\ asked' = [asked EXCEPT ![c] = None]
    /\ UNCHANGED <<libv, now, main_db, db_closed, mailbox, reply, applied, racers, max_connections,
                   acceptor, backlog, conn, wire, sent>>

\* Handler::run: conn.write_response(response).await.unwrap().  The client
\* reads the frame as the response to its outstanding request.  When the
\* peer is gone the write either fails (the unwrap aborts the task) or is
\* absorbed by the socket buffer (the next read returns end-of-file).
HandlerWrite(c, track) ==
    /\ hpc[c] = "write"
    /\ \/ /\ conn[c] = "open"
          /\ answer' = [answer EXCEPT ![c] = Some(Unwrap(resp[c]).status)]
          /\ hpc' = [hpc EXCEPT ![c] = "read"]
          /\ permits' = permits
       \/ /\ conn[c] = "closed"
          /\ answer' = answer
          /\ \/ /\ hpc' = [hpc EXCEPT ![c] = "read"]
                /\ permits' = permits
             \/ /\ hpc' = [hpc EXCEPT ![c] = "done"]
                /\ permits' = Handler_drop(permits)
    /\ lastOk' = [k \in Keys |-> IF track THEN LastOkAfter(k, c) ELSE lastOk[k]]
    /\ okd' = [k \in Keys |->
                 IF /\ Unwrap(cur[c]).op = "Set" /\ Unwrap(cur[c]).key = k
                    /\ Unwrap(resp[c]).status = "Ok" /\ c \in racers[k]
                 THEN okd[k] \cup {c} ELSE okd[k]]
    /\ cur' = [cur EXCEPT ![c] = None]
    /\ resp' = [resp EXCEPT ![c] = None]
    /\ seen' = [seen EXCEPT ![c] = None]
    /\ readAt' = [readAt EXCEPT ![c] = None]
    /\ okAtRead' = [okAtRead EXCEPT ![c] = None]
    /\ asked' = [asked EXCEPT ![c] = None]
    /\ UNCHANGED <<libv, now, main_db, db_closed, mailbox, reply, applied, racers, max_connections,
                   acceptor, backlog, conn, wire, sent>>

(* --------------------------- storage actor ----------------------------- *)
\* history: what the actor saw for the key of a message
Observation(s, key, t) ==
    [entry |-> IF key \in DOMAIN s.db THEN Some(s.db[key]) ELSE None,
     indexed |-> key \in s.keys_with_ttl,
     origin |-> IF key \in Keys THEN applied[key] ELSE None,
     at |-> t]

\* history: the last Insert that stored an entry for k
AppliedAfter(k, request, t) ==
    CASE request.kind = "Insert" /\ request.key = k
              /\ ~(request.ttl # None /\ Unwrap(request.ttl) <= t) ->
            Some([value |-> request.value, ttl |-> request.ttl])
      [] request.kind = "Remove" /\ request.key = k -> None
      [] request.kind = "Clear" -> None
      [] OTHER -> applied[k]

\* history: the handlers whose Set saw k absent since k was last removed
RacersAfter(k, m, s, s2) ==
    IF k \in DOMAIN s.db /\ k \notin DOMAIN s2.db
    THEN {}
    ELSE IF /\ m.request.kind = "ContainsKey" /\ m.request.key = k
            /\ k \notin DOMAIN s.db
            /\ cur[m.responder] # None /\ Unwrap(cur[m.responder]).op = "Set"
    THEN racers[k] \cup {m.responder}
    ELSE IF /\ m.request.kind = "Insert" /\ m.request.key = k
            /\ k \notin DOMAIN s2.db
    THEN racers[k] \ {m.responder}
    ELSE racers[k]

\* variant: an actor that applies a message only when its sender listens
ActorStep_skipping_unheard ==
    /\ ~db_closed
    /\ mailbox # <<>>
    /\ LET m == Head(mailbox)
           r == IF m.listening THEN MainDB_handle_request(main_db, m.request, now)
                ELSE [state |-> main_db, response |-> None]
       IN  /\ main_db' = r.state
           /\ IF m.listening
              THEN /\ reply' = [reply EXCEPT ![m.responder] = Some(r.response)]
                   /\ seen' = [seen EXCEPT ![m.responder] =
                                 Some(Observation(main_db, m.request.key, now))]
              ELSE UNCHANGED <<reply, seen>>
           /\ applied' = [k \in Keys |-> AppliedAfter(k, m.request, now)]
           /\ racers' = [k \in Keys |-> RacersAfter(k, m, main_db, r.state)]
           /\ okd' = [k \in Keys |-> okd[k] \cap RacersAfter(k, m, main_db, r.state)]
    /\ mailbox' = Tail(mailbox)
    /\ UNCHANGED <<libv, now, db_closed, lastOk, serverv, handlerv, clientv>>

\* variant: an actor that applies a message and sends no reply
ActorStep_silent ==
    /\ ~db_closed
    /\ mailbox # <<>>
    /\ LET m == Head(mailbox)
           r == MainDB_handle_request(main_db, m.request, now)
       IN  /\ main_db' = r.state
           /\ applied' = [k \in Keys |-> AppliedAfter(k, m.request, now)]
           /\ racers' = [k \in Keys |-> RacersAfter(k, m, main_db, r.state)]
           /\ okd' = [k \in Keys |-> okd[k] \cap RacersAfter(k, m, main_db, r.state)]
    /\ mailbox' = Tail(mailbox)
    /\ UNCHANGED <<libv, now, db_closed, reply, seen, lastOk, serverv, handlerv, clientv>>

\* Db::run: receive the next message, apply it, send the reply on the
\* oneshot channel (the send fails silently when the receiver was dropped).
ActorStep ==
    /\ ~db_closed
    /\ mailbox # <<>>
    /\ LET m == Head(mailbox)
           r == MainDB_handle_request(main_db, m.request, now)
       IN  /\ main_db' = r.state
           /\ IF m.listening
              THEN /\ reply' = [reply EXCEPT ![m.responder] = Some(r.response)]
                   /\ seen' = [seen EXCEPT ![m.responder] =
                                 Some(Observation(main_db, m.request.key, now))]
              ELSE UNCHANGED <<reply, seen>>
           /\ applied' = [k \in Keys |-> AppliedAfter(k, m.request, now)]
           /\ racers' = [k \in Keys |-> RacersAfter(k, m, main_db, r.state)]
           /\ okd' = [k \in Keys |-> okd[k] \cap RacersAfter(k, m, main_db, r.state)]
    /\ mailbox' = Tail(mailbox)
    /\ UNCHANGED <<libv, now, db_closed, lastOk, serverv, handlerv, clientv>>

(* ------------------------------- system -------------------------------- *)
\* the requests of the storage runs
Requests ==
    {Request_Get(k) : k \in Keys}
    \cup {Request_Set(k, v, ttl) : k \in Keys, v \in Values, ttl \in ClientTTLs}
    \cup {Request_Delete(k) : k \in Keys}
    \cup {Request_Flush}

\* the requests of the connection-limit runs: a Get and a Set the server
\* can serve and a Get with the empty key, which Key::parse accepts and the
\* server's Request::try_from rejects with KeyMissing
ServerRequests ==
    {Request_Get(k) : k \in Keys \cup {""}}
    \cup {Request_Set(k, ValuePool[1], None) : k \in Keys}

\* the steps of the acceptor, the handlers and the storage actor that every
\* run has
ServerSteps(track) ==
    \/ AcceptorAcquire
    \/ AcceptorAccept
    \/ \E c \in Clients : HandlerRead(c, track)
    \/ \E c \in Clients : HandlerSend(c)
    \/ \E c \in Clients : HandlerReply(c)
    \/ \E c \in Clients : HandlerWrite(c, track)
    \/ ActorStep

\* several connections, every request, no failures
Next ==
    \/ Tick
    \/ \E c \in Clients : ClientConnect(c)
    \/ \E c \in Clients : \E req \in Requests : ClientSend(c, req, MaxRequests)
    \/ ServerSteps(FALSE)
    \/ \E c \in Clients : HandlerSend2(c)

Spec == Init /\ [][Next]_vars

\* one connection, every request, no failures.  The ContainsKey of a Set or
\* Delete is the connection's last message, so the mailbox is empty when its
\* answer arrives and the Insert or Remove never waits for room.
NextSolo ==
    \/ Tick
    \/ ClientConnect(1)
    \/ \E req \in Requests : ClientSend(1, req, MaxRequestsSolo)
    \/ ServerSteps(TRUE)

SpecSolo == Init /\ [][NextSolo]_vars

\* several connections, any connection limit, disconnects, handler errors
\* and shutdown
NextServer ==
    \/ Tick
    \/ \E c \in Clients : ClientConnect(c)
    \/ \E c \in Clients : \E req \in ServerRequests : ClientSend(c, req, MaxRequests)
    \/ \E c \in Clients : ClientClose(c)
    \/ CtrlC
    \/ ServerReturn
    \/ \E c \in Clients : HandlerEof(c)
    \/ \E c \in Clients : HandlerShutdown(c)
    \/ ServerSteps(FALSE)
    \/ \E c \in Clients : HandlerSend2(c)

SpecServer == InitServer /\ [][NextServer]_vars

\* several connections, any connection limit, clients that leave after
\* their last response, handler errors, no shutdown; every task of the
\* runtime that can take a step eventually takes it
NextLive ==
    \/ Tick
    \/ \E c \in Clients : ClientConnect(c)
    \/ \E c \in Clients : \E req \in ServerRequests : ClientSend(c, req, MaxRequests)
    \/ \E c \in Clients : ClientDrop(c)
    \/ \E c \in Clients : HandlerEof(c)
    \/ ServerSteps(FALSE)
    \/ \E c \in Clients : HandlerSend2(c)

Fairness ==
    /\ WF_vars(AcceptorAcquire)
    /\ WF_vars(AcceptorAccept)
    /\ WF_vars(ActorStep)
    /\ \A c \in Clients :
         /\ WF_vars(HandlerRead(c, FALSE))
         /\ WF_vars(HandlerEof(c))
         /\ WF_vars(HandlerSend(c))
         /\ WF_vars(HandlerReply(c))
         /\ WF_vars(HandlerSend2(c))
         /\ WF_vars(HandlerWrite(c, FALSE))

SpecLive == InitServer /\ [][NextLive]_vars /\ Fairness

\* the requests that neither delete nor flush nor let a key expire
OrderRequests ==
    {Request_Get(k) : k \in Keys}
    \cup {Request_Set(k, v, None) : k \in Keys, v \in Values}

\* several connections that only set and get, no failures
NextOrder ==
    \/ \E c \in Clients : ClientConnect(c)
    \/ \E c \in Clients : \E req \in OrderRequests : ClientSend(c, req, MaxRequestsSolo)
    \/ ServerSteps(TRUE)
    \/ \E c \in Clients : HandlerSend2(c)

SpecOrder == Init /\ [][NextOrder]_vars

\* every key holds a value without TTL: the state after a connection that
\* has since left set each key and was answered Ok
Stored ==
    [db |-> [k \in Keys |-> DbValue(ValuePool[1], None)], keys_with_ttl |-> {}]

InitStored ==
    /\ InitStateWith({None}, Stored)
    /\ codec = Connection_new(None, <<>>)

\* the requests that store nothing
DeleteRequests == {Request_Delete(k) : k \in Keys} \cup {Request_Get(k) : k \in Keys}

\* several connections that delete and get keys that are present at first
NextDeletes ==
    \/ \E c \in Clients : ClientConnect(c)
    \/ \E c \in Clients : \E req \in DeleteRequests : ClientSend(c, req, MaxRequestsSolo)
    \/ ServerSteps(TRUE)
    \/ \E c \in Clients : HandlerSend2(c)

SpecDeletes == InitStored /\ [][NextDeletes]_vars

(* --------------------- the storage actor's task ends -------------------- *)
\* The task of Db::run ends (MainDB::get and insert panic on a clock that
\* reads before the epoch; the runtime drops its tasks when it shuts down):
\* the receiver of the mailbox is dropped.
ActorStop ==
    /\ ~db_closed
    /\ db_closed' = TRUE
    /\ UNCHANGED <<libv, now, main_db, mailbox, reply, seen, applied, racers, okd,
                   lastOk, serverv, handlerv, clientv>>

\* A message meets the closed channel: it is dropped with its oneshot
\* sender (request_sender.send returns an error that Db's methods ignore),
\* and the rx.await of Db::get or Db::contains_key returns a RecvError,
\* which .ok() turns into None.
ActorDiscard ==
    /\ db_closed
    /\ mailbox # <<>>
    /\ LET m == Head(mailbox)
       IN  IF m.listening
           THEN reply' = [reply EXCEPT ![m.responder] = Some(None)]
           ELSE reply' = reply
    /\ mailbox' = Tail(mailbox)
    /\ UNCHANGED <<libv, now, main_db, db_closed, seen, applied, racers, okd, lastOk,
                   serverv, handlerv, clientv>>

\* one connection, every request, and a storage actor that may end
NextClosed ==
    \/ ClientConnect(1)
    \/ \E req \in Requests : ClientSend(1, req, MaxRequests)
    \/ ServerSteps(FALSE)
    \/ ActorStop
    \/ ActorDiscard

SpecClosed == Init /\ [][NextClosed]_vars

(* ------------------------- the Db handle alone ------------------------- *)
\* the keys of the runs that drive the storage actor directly
DbKeys == {KeyPool[i] : i \in 1..(NumKeys + 1)}

\* every DbRequest
DbRequests ==
    {DbRequest_Get(k) : k \in DbKeys}
    \cup {DbRequest_Insert(k, v, ttl) : k \in DbKeys, v \in Values, ttl \in ClientTTLs}
    \cup {DbRequest_Remove(k) : k \in DbKeys}
    \cup {DbRequest_ContainsKey(k) : k \in DbKeys}
    \cup {DbRequest_Clear}

\* the task that holds the Db handle, as the tests of db.rs do
DbCaller == 1

\* Db::insert, get, remove, contains_key, clear up to the send: the request
\* and a fresh oneshot sender go into the actor's channel
Db_call(msg) ==
    /\ reply[DbCaller] = None
    /\ \A i \in 1..Len(mailbox) : ~mailbox[i].listening
    /\ Len(mailbox) < MailboxCapacity
    /\ mailbox' = Mailbox_send(mailbox, Envelope(msg, DbCaller))
    /\ UNCHANGED <<libv, now, actorv, okd, lastOk, serverv, handlerv, clientv>>

\* Db::get and Db::contains_key: rx.await returns the actor's answer
Db_receive ==
    /\ reply[DbCaller] # None
    /\ reply' = [reply EXCEPT ![DbCaller] = None]
    /\ seen' = [seen EXCEPT ![DbCaller] = None]
    /\ UNCHANGED <<libv, now, main_db, db_closed, mailbox, applied, racers, okd, lastOk,
                   serverv, handlerv, clientv>>

\* one task sends every sequence of requests to the storage actor while the
\* clock advances
NextDb ==
    \/ Tick
    \/ \E msg \in DbRequests : Db_call(msg)
    \/ Db_receive
    \/ ActorStep

SpecDb == Init /\ [][NextDb]_vars

(* ------------------ the Db of src/src, backed by DashMap ---------------- *)
\* Db::insert of src/src/db.rs: nothing is stored for a TTL that is not in
\* the future; a key with a TTL is added to keys_with_ttl
DashDb_insert(s, key, value, ttl, t) ==
    IF ttl # None /\ Unwrap(ttl) <= t
    THEN s
    ELSE [db |-> MapPut(s.db, key, DbValue(value, ttl)),
          keys_with_ttl |-> IF ttl # None THEN s.keys_with_ttl \cup {key}
                            ELSE s.keys_with_ttl]

\* Db::remove of src/src/db.rs
DashDb_remove(s, key) ==
    [db |-> MapDel(s.db, key), keys_with_ttl |-> s.keys_with_ttl \ {key}]

\* Db::get of src/src/db.rs: an entry whose TTL has elapsed is removed
DashDb_get(s, key, t) ==
    LET maybe_value == IF key \in DOMAIN s.db THEN Some(s.db[key]) ELSE None
        maybe_ttl == IF maybe_value = None THEN None
                     ELSE Unwrap(maybe_value).ttl_since_unix_epoch_in_millis
        ttl_has_expired == IF maybe_ttl = None THEN FALSE ELSE Unwrap(maybe_ttl) < t
    IN  IF ttl_has_expired THEN DashDb_remove(s, key) ELSE s

\* Db::clear of src/src/db.rs: self.main_db.clear()
DashDb_clear(s) == [db |-> EmptyMap, keys_with_ttl |-> s.keys_with_ttl]

\* the Db after one call of a method of the Database trait
DashDb_after(s, request, t) ==
    CASE request.kind = "Get" -> DashDb_get(s, request.key, t)
      [] request.kind = "Insert" ->
            DashDb_insert(s, request.key, request.value, request.ttl, t)
      [] request.kind = "ContainsKey" -> s
      [] request.kind = "Remove" -> DashDb_remove(s, request.key)
      [] request.kind = "Clear" -> DashDb_clear(s)

\* a task calls a method of the Db; cur keeps the call it made last
DashDb_call(msg) ==
    /\ main_db' = DashDb_after(main_db, msg, now)
    /\ cur' = [cur EXCEPT ![DbCaller] = Some(msg)]
    /\ UNCHANGED <<libv, now, db_closed, mailbox, reply, seen, applied, racers, okd,
                   lastOk, serverv, hpc, resp, readAt, okAtRead, clientv>>

NextDash ==
    \/ Tick
    \/ \E msg \in DbRequests : DashDb_call(msg)

SpecDash == Init /\ [][NextDash]_vars

(* ----------------------- client multiplexer task ----------------------- *)
\* RequestResponder; the responder is named by the number of the call
RequestResponder(request, id) == [request |-> request, responder |-> id]

\* Client::handle_request up to rx.await: a oneshot channel is made and the
\* RequestResponder is sent into the connection's channel (the send waits
\* while the channel is full); the caller then awaits the receiver.
CallerCall(l, request) ==
    /\ conn[MuxConn] = "open"
    /\ l \in senders
    /\ Len(calls) < MaxCalls
    /\ Len(queue) < MuxCapacity
    /\ queue' = Append(queue, RequestResponder(request, Len(calls) + 1))
    /\ calls' = Append(calls, [caller |-> l, request |-> request, rx |-> "waiting",
                               frame |-> 0, res |-> None])
    /\ UNCHANGED <<now, actorv, mailbox, okd, lastOk, serverv, handlerv, clientv,
                   senders, muxpc, mcur, inflight, nframes, codec>>

\* The caller drops the future of its call while it awaits the receiver:
\* the oneshot receiver is dropped.
CallerAbandon(i) ==
    /\ i \in 1..Len(calls)
    /\ calls[i].rx = "waiting"
    /\ calls' = [calls EXCEPT ![i].rx = "dropped"]
    /\ UNCHANGED <<now, actorv, mailbox, okd, lastOk, serverv, handlerv, clientv,
                   senders, queue, muxpc, mcur, inflight, nframes, codec>>

\* A ClientConnection or Client value is dropped, and its clone of the
\* sender with it.  A Client is borrowed by the calls it awaits.
HandleDrop(h) ==
    /\ conn[MuxConn] = "open"
    /\ h \in senders
    /\ \A i \in 1..Len(calls) : calls[i].caller = h => calls[i].rx # "waiting"
    /\ senders' = senders \ {h}
    /\ UNCHANGED <<now, actorv, mailbox, okd, lastOk, serverv, handlerv, clientv,
                   queue, muxpc, mcur, calls, inflight, nframes, codec>>

\* variant: a task that takes the next request while one is outstanding
MuxRecv_without_waiting ==
    /\ muxpc \in {"recv", "await"}
    /\ queue # <<>>
    /\ conn[MuxConn] = "open"
    /\ mcur' = Some(Head(queue))
    /\ queue' = Tail(queue)
    /\ muxpc' = "await"
    /\ inflight' = inflight + 1
    /\ wire' = IF hpc[MuxConn] = "done" THEN wire
               ELSE [wire EXCEPT ![MuxConn] = Some(RequestFrame_from(Head(queue).request))]
    /\ UNCHANGED <<now, actorv, mailbox, okd, lastOk, serverv, handlerv, conn, answer,
                   sent, asked, senders, calls, nframes, codec>>

\* The task: rx.recv() returns the oldest RequestResponder, then
\* conn.send_request starts with write_request.  The bytes are lost when
\* the server has closed the connection.
MuxRecv ==
    /\ muxpc = "recv"
    /\ queue # <<>>
    /\ conn[MuxConn] = "open"
    /\ mcur' = Some(Head(queue))
    /\ queue' = Tail(queue)
    /\ muxpc' = "await"
    /\ inflight' = inflight + 1
    /\ wire' = IF hpc[MuxConn] = "done" THEN wire
               ELSE [wire EXCEPT ![MuxConn] = Some(RequestFrame_from(Head(queue).request))]
    /\ UNCHANGED <<now, actorv, mailbox, okd, lastOk, serverv, handlerv, conn, answer,
                   sent, asked, senders, calls, nframes, codec>>

\* what the call in service becomes when send_request returns: with a
\* response frame read (taken) or with an error
CallAfter(call, taken, index) ==
    [call EXCEPT !.frame = IF taken THEN index ELSE 0,
                 !.res = IF taken THEN answer[MuxConn] ELSE Some("Err"),
                 !.rx = IF @ = "waiting" THEN "received" ELSE @]

\* variant: a task that leaves the response frame unread when the caller
\* has dropped its receiver
MuxDeliver_keeping_dropped ==
    /\ muxpc = "await"
    /\ answer[MuxConn] # None \/ hpc[MuxConn] = "done"
    /\ LET id == Unwrap(mcur).responder
           taken == answer[MuxConn] # None /\ calls[id].rx # "dropped"
       IN  /\ calls' = [calls EXCEPT ![id] = CallAfter(@, taken, nframes + 1)]
           /\ nframes' = IF taken THEN nframes + 1 ELSE nframes
           /\ answer' = IF taken THEN [answer EXCEPT ![MuxConn] = None] ELSE answer
    /\ mcur' = None
    /\ muxpc' = "recv"
    /\ inflight' = inflight - 1
    /\ UNCHANGED <<now, actorv, mailbox, okd, lastOk, serverv, handlerv, conn, wire,
                   sent, asked, senders, queue, codec>>

\* The task: send_request returns, with the response frame read from the
\* connection or with an error when the server closed it, and
\* responder.send(res) hands the result over; a dropped receiver is ignored.
MuxDeliver ==
    /\ muxpc = "await"
    /\ answer[MuxConn] # None \/ hpc[MuxConn] = "done"
    /\ LET id == Unwrap(mcur).responder
           taken == answer[MuxConn] # None
       IN  /\ calls' = [calls EXCEPT ![id] = CallAfter(@, taken, nframes + 1)]
           /\ nframes' = IF taken THEN nframes + 1 ELSE nframes
    /\ answer' = [answer EXCEPT ![MuxConn] = None]
    /\ mcur' = None
    /\ muxpc' = "recv"
    /\ inflight' = inflight - 1
    /\ UNCHANGED <<now, actorv, mailbox, okd, lastOk, serverv, handlerv, conn, wire,
                   sent, asked, senders, queue, codec>>

\* variant: a task that ends as soon as every sender is gone
MuxExit_early ==
    /\ muxpc = "recv"
    /\ conn[MuxConn] = "open"
    /\ senders = {}
    /\ muxpc' = "exited"
    /\ conn' = [conn EXCEPT ![MuxConn] = "closed"]
    /\ UNCHANGED <<now, actorv, mailbox, okd, lastOk, serverv, handlerv, wire, answer,
                   sent, asked, senders, queue, mcur, calls, inflight, nframes, codec>>

\* The task: rx.recv() returns None when the channel is empty and every
\* sender has been dropped; the loop ends, the Connection is dropped and the
\* TCP stream closes.
MuxExit ==
    /\ muxpc = "recv"
    /\ conn[MuxConn] = "open"
    /\ senders = {}
    /\ queue = <<>>
    /\ muxpc' = "exited"
    /\ conn' = [conn EXCEPT ![MuxConn] = "closed"]
    /\ UNCHANGED <<now, actorv, mailbox, okd, lastOk, serverv, handlerv, wire, answer,
                   sent, asked, senders, queue, mcur, calls, inflight, nframes, codec>>

\* one ClientConnection shared by several Clients, a server with the
\* default connection limit; every task of the two runtimes that can take a
\* step eventually takes it
NextMux ==
    \/ ClientConnect(MuxConn)
    \/ \E l \in Callers : \E request \in ServerRequests : CallerCall(l, request)
    \/ \E i \in 1..MaxCalls : CallerAbandon(i)
    \/ \E h \in Handles : HandleDrop(h)
    \/ MuxRecv
    \/ MuxDeliver
    \/ MuxExit
    \/ HandlerEof(MuxConn)
    \/ ServerSteps(FALSE)

FairnessMux ==
    /\ WF_vars(MuxRecv)
    /\ WF_vars(MuxDeliver)
    /\ WF_vars(MuxExit)
    /\ WF_vars(AcceptorAcquire)
    /\ WF_vars(AcceptorAccept)
    /\ WF_vars(ActorStep)
    /\ WF_vars(HandlerRead(MuxConn, FALSE))
    /\ WF_vars(HandlerEof(MuxConn))
    /\ WF_vars(HandlerSend(MuxConn))
    /\ WF_vars(HandlerReply(MuxConn))
    /\ WF_vars(HandlerWrite(MuxConn, FALSE))

SpecMux == Init /\ [][NextMux]_vars /\ FairnessMux

(* ---------------------------- byte streams ----------------------------- *)
\* the requests the client library can build from the strings of the
\* byte-level runs
CodecRequests ==
    {Request_Get(k) : k \in CodecKeys}
    \cup {Request_Set(k, v, ttl) : k \in CodecKeys, v \in CodecValues, ttl \in ClientTTLs}
    \cup {Request_Delete(k) : k \in CodecKeys}
    \cup {Request_Flush}

\* every frame a peer can put on the wire with these strings
CodecFrames ==
    {[op_code |-> op, key_length |-> Len(as_bytes(k)), ttl |-> t, key |-> k, value |-> v] :
        op \in 1..4, k \in CodecKeys, v \in CodecValues, t \in Times}

\* what the stream carries: a frame built from a Request or any frame,
\* followed by a second frame
CodecInputs ==
    {[request |-> Some(r), frame |-> RequestFrame_from(r)] : r \in CodecRequests}
    \cup {[request |-> None, frame |-> f] : f \in CodecFrames}

CodecSeconds == {RequestFrame_from(Request_Flush), RequestFrame_from(Request_Get("a"))}

InitCodec ==
    /\ InitState({None})
    /\ \E input \in CodecInputs : \E second \in CodecSeconds :
          codec = Connection_new(Some(input), write_request(input.frame) \o write_request(second))

\* the buffer after one call of fn read_request; a decoded frame is
\* recorded with the number of bytes it took from the buffer; an error
\* is unwrapped by Handler::run and ends the connection
CodecAfter(cd, fed, before, result) ==
    [cd EXCEPT
       !.fed = fed,
       !.buffer = result.buffer,
       !.decoded = IF result.kind = "Frame"
                   THEN Append(@, [frame |-> result.frame,
                                   request |-> result.request,
                                   consumed |-> Len(before) - Len(result.buffer)])
                   ELSE @,
       !.failed = \/ result.kind = "Err"
                  \/ result.kind = "Frame" /\ ~result.request.ok]

\* Connection::read_request, one turn of the loop with no frame in the
\* buffer: read_buf appends the next k bytes of the stream, then fn
\* read_request runs on the buffer
CodecFeed(k) ==
    /\ ~codec.failed
    /\ codec.closed = None
    /\ codec.fed + k <= Len(codec.stream)
    /\ read_request_buffer(codec.buffer).kind = "None"
    /\ LET buffer == codec.buffer \o SubSeq(codec.stream, codec.fed + 1, codec.fed + k)
       IN  codec' = CodecAfter(codec, codec.fed + k, buffer, read_request_buffer(buffer))
    /\ UNCHANGED <<now, actorv, mailbox, okd, lastOk, serverv, handlerv, clientv, muxv>>

\* Connection::read_request called with a frame already in the buffer: fn
\* read_request returns it before anything is read from the socket
CodecDecode ==
    /\ ~codec.failed
    /\ codec.closed = None
    /\ read_request_buffer(codec.buffer).kind # "None"
    /\ codec' = CodecAfter(codec, codec.fed, codec.buffer, read_request_buffer(codec.buffer))
    /\ UNCHANGED <<now, actorv, mailbox, okd, lastOk, serverv, handlerv, clientv, muxv>>

\* a byte stream that arrives in any fragmentation
\* variant: a read that reports a clean end whatever the buffer holds
CodecEof_clean ==
    /\ ~codec.failed
    /\ codec.closed = None
    /\ read_request_buffer(codec.buffer).kind = "None"
    /\ codec' = [codec EXCEPT !.closed = Some("None")]
    /\ UNCHANGED <<now, actorv, mailbox, okd, lastOk, serverv, handlerv, clientv, muxv>>

\* Connection::read_request when the peer has closed after the bytes fed so
\* far: fn read_request finds no whole frame, read_buf returns 0, and the
\* call returns Ok(None) for an empty buffer and ResetByPeer otherwise.
\* Handler::run leaves its loop on Ok(None) and unwraps the error.
CodecEof ==
    /\ ~codec.failed
    /\ codec.closed = None
    /\ read_request_buffer(codec.buffer).kind = "None"
    /\ codec' = [codec EXCEPT
                   !.closed = Some(IF codec.buffer = <<>> THEN "None" ELSE "ResetByPeer")]
    /\ UNCHANGED <<now, actorv, mailbox, okd, lastOk, serverv, handlerv, clientv, muxv>>

NextCodec ==
    \/ \E k \in 1..(2 * HEADER_SIZE_BYTES + 8) : CodecFeed(k)
    \/ CodecDecode
    \/ CodecEof

SpecCodec == InitCodec /\ [][NextCodec]_vars

\* the bytes of a request frame whose total_frame_length field is set by
\* the peer, whatever the key and the value that follow the header
write_forged(forged) ==
    <<forged.op_code, 0, Len(as_bytes(forged.key))>>
    \o to_be_bytes(0, 16)
    \o to_be_bytes(forged.total_frame_length, 4)
    \o as_bytes(forged.key)
    \o as_bytes(forged.value)

\* the frames a peer can write with a total_frame_length of its choice, up
\* to the length the frame has, and the two ways the server can be built:
\* with or without overflow checks
ForgedInputs ==
    {[op_code |-> op, key |-> k, value |-> v, total_frame_length |-> t,
      overflow_checks |-> b] :
        op \in 1..4, k \in CodecKeys, v \in CodecValues,
        t \in 0..(HEADER_SIZE_BYTES + 4), b \in BOOLEAN}

InitHeader ==
    /\ InitState({None})
    /\ \E forged \in ForgedInputs :
          /\ forged.total_frame_length
                <= HEADER_SIZE_BYTES + Len(as_bytes(forged.key)) + Len(as_bytes(forged.value))
          /\ codec = Connection_new(Some(forged), write_forged(forged))

\* fn read_request on a buffer whose header may understate the frame: the
\* subtraction total_frame_length - 23 - key_length in usize panics when
\* the build has overflow checks and wraps around when it has none; the
\* wrapped value length exceeds every buffer, so take() is Incomplete
read_forged(buffer, overflow_checks) ==
    LET parsed == parse_request_primitives(buffer)
    IN  IF parsed.kind = "Underflow"
        THEN IF overflow_checks
             THEN [kind |-> "Panic", wrapped |-> FALSE]
             ELSE [kind |-> "None", wrapped |-> TRUE]
        ELSE [kind |-> read_request_buffer(buffer).kind, wrapped |-> FALSE]

\* Connection::read_request after the first n bytes of the stream arrived
HeaderDecode(n) ==
    /\ codec.decoded = <<>>
    /\ n <= Len(codec.stream)
    /\ LET buffer == SubSeq(codec.stream, 1, n)
           result == read_forged(buffer, Unwrap(codec.input).overflow_checks)
       IN  codec' = [codec EXCEPT
                       !.fed = n,
                       !.buffer = buffer,
                       !.decoded = <<result>>,
                       !.failed = result.kind \in {"Panic", "Err"}]
    /\ UNCHANGED <<now, actorv, mailbox, okd, lastOk, serverv, handlerv, clientv, muxv>>

NextHeader == \E n \in 0..(HEADER_SIZE_BYTES + 4) : HeaderDecode(n)

SpecHeader == InitHeader /\ [][NextHeader]_vars

\* every response frame fn read_response can take from the buffer of the
\* client's Connection: parse_response_frame gives any op code, status and
\* TTL, and a key and a value that are absent or present
ResponseFrames ==
    {[op_code |-> op, status |-> st, ttl |-> t, key |-> k, value |-> v] :
        op \in 1..4, st \in StatusCodes, t \in Times,
        k \in {None} \cup {Some(x) : x \in CodecKeys \ {""}},
        v \in {None} \cup {Some(x) : x \in CodecValues \ {""}}}

InitResponse ==
    /\ InitState({None})
    /\ \E frame \in ResponseFrames :
          codec = Connection_new(Some([frame |-> frame]), <<>>)

\* fn read_response with a whole frame in the buffer: Response::try_from
\* turns the frame into the Response or the error the caller gets
ResponseRead ==
    /\ codec.decoded = <<>>
    /\ codec' = [codec EXCEPT
                   !.decoded = <<Response_try_from(Unwrap(codec.input).frame)>>,
                   !.failed = ~Response_try_from(Unwrap(codec.input).frame).ok]
    /\ UNCHANGED <<now, actorv, mailbox, okd, lastOk, serverv, handlerv, clientv, muxv>>

NextResponse == ResponseRead

SpecResponse == InitResponse /\ [][NextResponse]_vars

(* =============================== claims ================================ *)
Writing(c, op) == hpc[c] = "write" /\ cur[c] # None /\ Unwrap(cur[c]).op = op
Req(c) == Unwrap(cur[c])
Resp(c) == Unwrap(resp[c])
Obs(c) == Unwrap(seen[c])
NoBody(op) == [kind |-> op, get |-> None]

\* the observed entry had a TTL that had elapsed when the actor served the message
Expired(o) ==
    /\ o.entry # None
    /\ Unwrap(o.entry).ttl_since_unix_epoch_in_millis # None
    /\ Unwrap(Unwrap(o.entry).ttl_since_unix_epoch_in_millis) < o.at

\* the last mutation of k answered Ok was a Set without TTL
LastOkPlainSet(k) ==
    /\ lastOk[k] # None
    /\ Unwrap(lastOk[k]).op = "Set"
    /\ Unwrap(lastOk[k]).ttl = None

LastOkIs(k, op) == lastOk[k] # None /\ Unwrap(lastOk[k]).op = op

\* C1: on one connection, once Set{k,v,None} was answered Ok and until a
\* Delete or Flush is answered Ok, every later Set on k is answered
\* KeyExists, every Get(k) is answered Ok with (k, v, None), and whenever
\* no request is in progress and the mailbox is drained the stored entry
\* is (v, None).
C1_SetIsInsertIfAbsent ==
    /\ \A c \in Clients :
          (Writing(c, "Set") /\ LastOkPlainSet(Req(c).key)) =>
              Resp(c) = Response_new("KeyExists", NoBody("Set"))
    /\ \A c \in Clients :
          (Writing(c, "Get") /\ LastOkPlainSet(Req(c).key)) =>
              Resp(c) = Response_new("Ok",
                  [kind |-> "Get",
                   get |-> Some([key |-> Req(c).key,
                                 value |-> Unwrap(lastOk[Req(c).key]).value,
                                 ttl_since_unix_epoch_in_millis |-> None])])
    /\ \A k \in Keys :
          (LastOkPlainSet(k) /\ mailbox = <<>> /\ \A c \in Clients : cur[c] = None) =>
              /\ k \in DOMAIN main_db.db
              /\ main_db.db[k] = DbValue(Unwrap(lastOk[k]).value, None)

\* a Get about to be answered after a first Set was answered Ok and a
\* second Set on the same key was answered KeyExists
C1_Witness ==
    \E c \in Clients :
        /\ Writing(c, "Get")
        /\ LastOkPlainSet(Req(c).key)
        /\ Unwrap(lastOk[Req(c).key]).rejected

\* C2: of the Sets that saw one and the same absence of a key, at most one
\* is answered Ok (the others are answered KeyExists), on whatever
\* connections they arrive.
C2_ExactlyOneSetWins == \A k \in Keys : Cardinality(okd[k]) <= 1

\* C3: a Get that the actor serves when the stored TTL is smaller than the
\* clock is answered KeyNotFound with an empty body, the actor's step
\* removes the key from main and from keys_with_ttl, and no Get is answered
\* with a TTL that had elapsed when it was served.
C3_ExpiredGetIsMiss ==
    /\ [](\A c \in Clients :
            (Writing(c, "Get") /\ seen[c] # None) =>
                /\ Expired(Obs(c)) => Resp(c) = Response_new("KeyNotFound", NoBody("Get"))
                /\ Resp(c).body.get # None =>
                      LET ttl == Unwrap(Resp(c).body.get).ttl_since_unix_epoch_in_millis
                      IN  ttl = None \/ Unwrap(ttl) >= Obs(c).at)
    /\ [][\A k \in Keys :
            ( /\ mailbox # <<>>
              /\ mailbox' = Tail(mailbox)
              /\ Head(mailbox).request.kind = "Get"
              /\ Head(mailbox).request.key = k
              /\ Expired(Observation(main_db, k, now)) )
            => (k \notin DOMAIN main_db'.db /\ k \notin main_db'.keys_with_ttl)]_vars

\* a Get about to be answered that was served on an elapsed entry
C3_Witness ==
    \E c \in Clients : Writing(c, "Get") /\ seen[c] # None /\ Expired(Obs(c))

\* the last mutation of k answered Ok was a Set{k,v,Some(t)} with t <= now
\* when the server read it
LastOkPastSet(k) ==
    /\ lastOk[k] # None
    /\ Unwrap(lastOk[k]).op = "Set"
    /\ Unwrap(lastOk[k]).past

\* the request the client passed to the library is a Set with a TTL at or
\* before the clock reading at which the server read the request
AskedPastSet(c) ==
    /\ asked[c] # None /\ readAt[c] # None
    /\ Unwrap(asked[c]).op = "Set"
    /\ Unwrap(asked[c]).ttl # None
    /\ Unwrap(Unwrap(asked[c]).ttl) <= Unwrap(readAt[c])

C6_GetAnswer ==
    \A c \in Clients :
        (Writing(c, "Get") /\ seen[c] # None) =>
            IF Obs(c).entry # None /\ ~Expired(Obs(c))
            THEN /\ Obs(c).origin # None
                 /\ Resp(c) = Response_new("Ok",
                       [kind |-> "Get",
                        get |-> Some([key |-> Req(c).key,
                                      value |-> Unwrap(Obs(c).origin).value,
                                      ttl_since_unix_epoch_in_millis |->
                                          Unwrap(Obs(c).origin).ttl])])
            ELSE Resp(c) = Response_new("KeyNotFound", NoBody("Get"))

\* a Get about to be answered Ok with a value and a TTL
C6_Witness ==
    \E c \in Clients :
        /\ Writing(c, "Get") /\ seen[c] # None
        /\ Obs(c).entry # None /\ ~Expired(Obs(c))
        /\ Unwrap(Obs(c).entry).ttl_since_unix_epoch_in_millis # None

\* C7: on one connection, Delete(k) is answered Ok when the actor found k
\* present and KeyNotFound when it found k absent; the Remove takes k out of
\* main and keys_with_ttl; after a Set without TTL answered Ok the Delete is
\* answered Ok, and after a Delete answered Ok every Get and Delete on k is
\* answered KeyNotFound until a Set is answered Ok.
C7_Delete ==
    /\ [](\A c \in Clients :
            Writing(c, "Delete") =>
                /\ Resp(c) = Response_new(IF Obs(c).entry # None THEN "Ok" ELSE "KeyNotFound",
                                          NoBody("Delete"))
                /\ LastOkPlainSet(Req(c).key) => Resp(c).status = "Ok"
                /\ LastOkIs(Req(c).key, "Delete") => Resp(c).status = "KeyNotFound")
    /\ [](\A c \in Clients :
            (Writing(c, "Get") /\ LastOkIs(Req(c).key, "Delete")) =>
                Resp(c) = Response_new("KeyNotFound", NoBody("Get")))
    /\ [][\A k \in Keys :
            ( /\ mailbox # <<>>
              /\ mailbox' = Tail(mailbox)
              /\ Head(mailbox).request.kind = "Remove"
              /\ Head(mailbox).request.key = k )
            => (k \notin DOMAIN main_db'.db /\ k \notin main_db'.keys_with_ttl)]_vars

\* a second Delete about to be answered after the first was answered Ok
C7_Witness ==
    \E c \in Clients : Writing(c, "Delete") /\ LastOkIs(Req(c).key, "Delete")

\* C8: a Flush is always answered Ok; the Clear it sends leaves main and
\* keys_with_ttl empty whatever they held; after the Flush was answered,
\* every Get is answered KeyNotFound until a Set is answered Ok.
C8_Flush ==
    /\ [](\A c \in Clients :
            Writing(c, "Flush") => Resp(c) = Response_new("Ok", NoBody("Flush")))
    /\ [](\A c \in Clients :
            (Writing(c, "Get") /\ LastOkIs(Req(c).key, "Flush")) =>
                Resp(c) = Response_new("KeyNotFound", NoBody("Get")))
    /\ [][( /\ mailbox # <<>>
            /\ mailbox' = Tail(mailbox)
            /\ Head(mailbox).request.kind = "Clear" )
          => (DOMAIN main_db'.db = {} /\ main_db'.keys_with_ttl = {})]_vars

\* a Get about to be answered after a Flush was answered
C8_Witness ==
    \E c \in Clients : Writing(c, "Get") /\ LastOkIs(Req(c).key, "Flush")

\* C9: the number of live connection handlers never exceeds
\* max_connections (250 when not configured).
C9_ConnectionLimit ==
    Cardinality(LiveHandlers) <= (IF max_connections = None THEN 250
                                  ELSE Unwrap(max_connections))

\* the limit is reached and a further connection waits to be accepted
C9_Witness ==
    /\ max_connections # None
    /\ Cardinality(LiveHandlers) = Unwrap(max_connections)
    /\ backlog # <<>>
    /\ acceptor = "acquire"

\* B has a request the server can decode waiting on its connection while
\* every connection opened before B's is closed
Pending(B) ==
    /\ max_connections = Some(1)
    /\ conn[B] = "open"
    /\ wire[B] # None
    /\ read_request(Unwrap(wire[B])).ok
    /\ \A A \in Clients : A < B => conn[A] = "closed"

\* C10: with max_connections = 1, a response reaches a client only while
\* no other connection's handler is live, and once the connections opened
\* before B's are closed, B's waiting request is eventually answered.
C10_SecondClientWaits ==
    /\ [][\A B \in Clients :
            (max_connections = Some(1) /\ answer[B] = None /\ answer'[B] # None) =>
                \A A \in Clients \ {B} : ~Live(A)]_vars
    /\ \A B \in Clients : Pending(B) ~> (answer[B] # None)

\* B is answered after the connection opened before it was closed and its
\* handler ended
C10_Witness ==
    \E B \in Clients : \E A \in Clients :
        /\ A < B
        /\ max_connections = Some(1)
        /\ conn[A] = "closed" /\ hpc[A] = "done"
        /\ answer[B] # None

\* C11: Server::run has returned only when no connection handler is live:
\* every handler that was spawned has ended and dropped its completion
\* sender.
C11_RunWaitsForHandlers ==
    acceptor = "returned" => \A c \in Clients : ~Live(c)

\* run has returned after a handler that it had spawned ended
C11_Witness ==
    /\ acceptor = "returned"
    /\ \E c \in Clients : hpc[c] = "done"

\* C12 as stated: once shutdown is triggered, a handler that waits for
\* input ends without reading another request, even when a request is
\* already available on its connection.
C12_NoReadAfterShutdown ==
    [][\A c \in Clients :
          (acceptor = "stopped" /\ hpc[c] = "read") => hpc'[c] \in {"read", "done"}]_vars

\* what the stream was built from
Input == Unwrap(codec.input)

\* C18 as stated: a Request the client library builds is the Request the
\* server decodes from its bytes.
C18_RequestRoundTrip ==
    (codec.input # None /\ Input.request # None /\ Len(codec.decoded) >= 1) =>
        codec.decoded[1].request = [ok |-> TRUE, req |-> Unwrap(Input.request)]

\* what decoding the whole first frame at once gives
FirstBytes == write_request(Input.frame)
FirstWhole == read_request_buffer(FirstBytes)

\* C19: while fewer than the n bytes of a frame have arrived nothing is
\* decoded and the buffer holds every byte fed; once n bytes have arrived
\* the frame is decoded once, equal to the frame decoded from the n bytes
\* in one piece, and exactly n bytes have left the buffer.
C19_FragmentedDecode ==
    codec.input # None =>
        LET n == Len(FirstBytes)
        IN  /\ codec.fed < n =>
                 /\ codec.decoded = <<>>
                 /\ ~codec.failed
                 /\ codec.buffer = SubSeq(codec.stream, 1, codec.fed)
            /\ codec.fed >= n =>
                 /\ Len(codec.decoded) >= 1
                 /\ codec.decoded[1].frame = FirstWhole.frame
                 /\ codec.decoded[1].request = FirstWhole.request
                 /\ codec.decoded[1].consumed = n
                 /\ Len(codec.decoded) = 1 =>
                       codec.buffer = SubSeq(codec.stream, n + 1, codec.fed)

\* the first frame was decoded in a read that also brought bytes of the
\* second frame, after at least one read that left it incomplete
C19_Witness ==
    /\ codec.input # None
    /\ Len(codec.decoded) = 1
    /\ codec.buffer # <<>>
    /\ codec.fed > Len(FirstBytes)

\* C20: the conversion of a decoded frame succeeds exactly for Set with key
\* and value, Get or Delete with a key and no value, Flush with neither;
\* every other frame is rejected with KeyMissing, ValueMissing,
\* UnexpectedKey or UnexpectedValue.
C20_FrameToRequest ==
    \A i \in 1..Len(codec.decoded) :
        LET frame == codec.decoded[i].frame
            result == codec.decoded[i].request
            accepted ==
                \/ frame.op_code = 1 /\ frame.key # None /\ frame.value # None
                \/ frame.op_code \in {2, 3} /\ frame.key # None /\ frame.value = None
                \/ frame.op_code = 4 /\ frame.key = None /\ frame.value = None
        IN  /\ result.ok <=> accepted
            /\ ~result.ok =>
                  result.err \in {"KeyMissing", "ValueMissing", "UnexpectedKey", "UnexpectedValue"}
            /\ result.ok => OpCode(result.req.op) = frame.op_code

\* a Get frame that carries a value was rejected with UnexpectedValue
C20_Witness ==
    /\ Len(codec.decoded) >= 1
    /\ codec.decoded[1].frame.op_code = 2
    /\ codec.decoded[1].frame.value # None
    /\ codec.decoded[1].request = [ok |-> FALSE, err |-> "UnexpectedValue"]

\* C16: on every connection the handler takes a request only when it owes
\* no response, ends a request only by writing its response (the one frame
\* the client then reads, as long as the client is connected), and writes
\* a response frame only as the end of the request it read last.
C16_OneResponsePerRequest ==
    [][\A c \in Clients :
          /\ (cur[c] = None /\ cur'[c] # None) =>
                (hpc[c] = "read" /\ resp[c] = None /\ wire[c] # None /\ wire'[c] = None)
          /\ (cur[c] # None /\ cur'[c] = None) =>
                /\ hpc[c] = "write"
                /\ resp[c] # None
                /\ conn[c] = "open" => answer'[c] = Some(Unwrap(resp[c]).status)
          /\ (answer'[c] # answer[c] /\ answer'[c] # None) =>
                (cur[c] # None /\ cur'[c] = None /\ hpc'[c] = "read")]_vars

\* a handler that has answered one request is handling the next
C16_Witness ==
    \E c \in Clients :
        /\ sent >= 2 /\ hpc[c] = "write" /\ conn[c] = "open"
        /\ \A d \in Clients \ {c} : conn[d] = "new"

\* the handler's step fails: the request read cannot be decoded, or the
\* response cannot be written
HandlerFails(c) ==
    /\ hpc[c] \in {"read", "write"}
    /\ hpc'[c] = "done"
    /\ \/ hpc[c] = "read" /\ wire[c] # None /\ wire'[c] = None
       \/ hpc[c] = "write"

\* C17: a handler that fails on its input or its socket writes no response
\* and ends alone: the storage, the mailbox, the acceptor, every other
\* handler and every response already delivered are as before.
C17_HandlerErrorIsLocal ==
    [][\A c \in Clients :
          HandlerFails(c) =>
              /\ answer' = answer
              /\ main_db' = main_db
              /\ mailbox' = mailbox
              /\ acceptor' = acceptor
              /\ \A d \in Clients \ {c} : hpc'[d] = hpc[d] /\ cur'[d] = cur[d]]_vars

\* a handler ended on a request it could not decode while the acceptor is
\* serving and another handler is at work
C17_Witness ==
    \E c \in Clients : \E d \in Clients \ {c} :
        /\ hpc[c] = "done" /\ conn[c] = "open"
        /\ acceptor \in {"acquire", "accept"}
        /\ hpc[d] = "write"

\* the calls made so far
CallIds == 1..Len(calls)

\* C13: the multiplexer task never has more than one request outstanding;
\* the server answers the request of the call the task is serving; the
\* result goes to that call; and the i-th call dequeued is given the i-th
\* response frame read.
C13_MuxPairsResponses ==
    /\ [](inflight <= 1)
    /\ [](\A i \in CallIds : calls[i].frame \in {0, i})
    /\ [][(answer[MuxConn] = None /\ answer'[MuxConn] # None) =>
            /\ mcur # None
            /\ cur[MuxConn] # None
            /\ read_request(RequestFrame_from(calls[Unwrap(mcur).responder].request))
                  = [ok |-> TRUE, req |-> Unwrap(cur[MuxConn])]]_vars
    /\ [][\A i \in CallIds :
            (calls[i].res = None /\ calls'[i].res # None) =>
                /\ mcur # None
                /\ Unwrap(mcur).responder = i
                /\ answer[MuxConn] # None => calls'[i].res = answer[MuxConn]]_vars

\* two logical clients have each received the response frame of their call
C13_Witness ==
    \E i \in CallIds : \E j \in CallIds :
        /\ i < j
        /\ calls[i].caller # calls[j].caller
        /\ calls[i].rx = "received" /\ calls[i].frame = i
        /\ calls[j].rx = "received" /\ calls[j].frame = j

\* C14: a call whose receiver was dropped is still written when its turn
\* comes and its response frame is still read (the result is an error only
\* when the server has closed the connection); the task keeps running while
\* a sender exists; and every later call is given its own response frame.
C14_DroppedReceiver ==
    /\ [](\A i \in CallIds :
            (calls[i].rx = "dropped" /\ calls[i].res # None) =>
                \/ calls[i].frame = i
                \/ calls[i].res = Some("Err") /\ hpc[MuxConn] = "done")
    /\ [](\A i \in CallIds : \A j \in CallIds :
            (i < j /\ calls[i].rx = "dropped" /\ calls[j].res \notin {None, Some("Err")}) =>
                (calls[i].frame = i /\ calls[j].frame = j))
    /\ [](senders # {} => muxpc # "exited")
    /\ [][(queue # <<>> /\ queue' = Tail(queue) /\ hpc[MuxConn] # "done") =>
            wire'[MuxConn] = Some(RequestFrame_from(Head(queue).request))]_vars

\* a call made after one whose receiver was dropped has received its own
\* response frame
C14_Witness ==
    \E i \in CallIds : \E j \in CallIds :
        /\ i < j
        /\ calls[i].rx = "dropped" /\ calls[i].frame = i
        /\ calls[j].rx = "received" /\ calls[j].frame = j

\* the task has ended only with an empty channel, every call served and the
\* connection closed
MuxDrains ==
    muxpc = "exited" =>
        /\ queue = <<>>
        /\ \A i \in CallIds : calls[i].res # None
        /\ conn[MuxConn] = "closed"

\* C15 as stated: after a handle is dropped the task serves what is
\* queued, then ends and closes the connection.
C15_AnyHandleDropEndsTask ==
    /\ []MuxDrains
    /\ (senders # Handles) ~> (muxpc = "exited" /\ conn[MuxConn] = "closed")

\* C15 amended: after the last handle is dropped (the ClientConnection and
\* every Client made from it) the task serves what is queued, then ends and
\* closes the connection; it never ends with a request unserved.
C15_LastHandleDropEndsTask ==
    /\ []MuxDrains
    /\ (conn[MuxConn] = "open" /\ senders = {}) ~> (muxpc = "exited" /\ conn[MuxConn] = "closed")

\* the task has ended after serving a call that was abandoned
C15_Witness ==
    /\ muxpc = "exited"
    /\ \E i \in CallIds : calls[i].rx = "dropped"

\* the response frame the client's Connection was given
ResponseInput == Unwrap(codec.input).frame

\* C21: a Get response frame without its key or its value is an error
\* when its status is Ok and a Response with the frame's status and body
\* None when its status is not Ok; a Get frame with key and value gives the
\* body with both; a Set, Delete or Flush frame with a key or a value is an
\* error, and one with neither gives a Response with the frame's status.
C21_ResponseFromFrame ==
    codec.decoded # <<>> =>
        LET frame == ResponseInput
            result == codec.decoded[1]
            missing == frame.key = None \/ frame.value = None
        IN  /\ (frame.op_code = 2 /\ frame.status = "Ok" /\ missing) =>
                  /\ ~result.ok
                  /\ result.err \in {"KeyMissing", "ValueMissing", "KeyAndValueMissing"}
            /\ (frame.op_code = 2 /\ frame.status # "Ok" /\ missing) =>
                  /\ result.ok
                  /\ result.resp = [status |-> frame.status,
                                    body |-> [kind |-> "Get", get |-> None]]
            /\ (frame.op_code = 2 /\ ~missing) =>
                  /\ result.ok
                  /\ result.resp.status = frame.status
                  /\ result.resp.body.get # None
                  /\ Unwrap(result.resp.body.get).key = Unwrap(frame.key)
                  /\ Unwrap(result.resp.body.get).value = Unwrap(frame.value)
            /\ (frame.op_code # 2 /\ (frame.key # None \/ frame.value # None)) =>
                  /\ ~result.ok
                  /\ result.err \in {"UnexpectedKey", "UnexpectedValue"}
            /\ (frame.op_code # 2 /\ frame.key = None /\ frame.value = None) =>
                  /\ result.ok
                  /\ result.resp.status = frame.status
                  /\ result.resp.body.get = None

\* a Get frame with status KeyNotFound and a key but no value was turned
\* into a Response with body None
C21_Witness ==
    /\ codec.decoded # <<>>
    /\ ResponseInput.op_code = 2
    /\ ResponseInput.status = "KeyNotFound"
    /\ ResponseInput.key # None
    /\ ResponseInput.value = None
    /\ codec.decoded[1].ok
    /\ codec.decoded[1].resp.body.get = None

\* the entry of k in main carries a TTL
HasTtl(s, k) == k \in DOMAIN s.db /\ s.db[k].ttl_since_unix_epoch_in_millis # None

\* C22: after every step of the storage actor a key is in keys_with_ttl
\* if and only if its entry in main has Some(TTL).
C22_TtlIndexMatchesMain ==
    \A k \in DbKeys : k \in main_db.keys_with_ttl <=> HasTtl(main_db, k)

\* C23: the actor answers ContainsKey(k) with true whenever k has an entry
\* in main, elapsed TTL or not; a Set whose ContainsKey found an entry with
\* an elapsed TTL is answered KeyExists, sends no Insert, and the expired
\* entry is still in main and keys_with_ttl when the response is written.
C23_ExpiredEntryBlocksSet ==
    \A c \in Clients :
        /\ (reply[c] # None /\ seen[c] # None /\ Unwrap(reply[c]) # None
              /\ Unwrap(Unwrap(reply[c])).kind = "ContainsKey") =>
              (Unwrap(Unwrap(reply[c])).contains <=> Obs(c).entry # None)
        /\ (Writing(c, "Set") /\ seen[c] # None /\ Expired(Obs(c))) =>
              /\ Resp(c) = Response_new("KeyExists", NoBody("Set"))
              /\ mailbox = <<>>
              /\ Req(c).key \in DOMAIN main_db.db
              /\ main_db.db[Req(c).key] = Unwrap(Obs(c).entry)
              /\ Req(c).key \in main_db.keys_with_ttl

\* a Set is about to be answered after its ContainsKey found an entry whose
\* TTL had elapsed
C23_Witness ==
    \E c \in Clients :
        /\ Writing(c, "Set")
        /\ seen[c] # None
        /\ Expired(Obs(c))
        /\ Resp(c).status = "KeyExists"

\* the step is the storage actor's, and it processes a message of this kind
Processes(kind) ==
    /\ mailbox # <<>>
    /\ mailbox' = Tail(mailbox)
    /\ Head(mailbox).request.kind = kind

\* C24: when the actor processes Insert(k,v,ttl) with ttl absent or later
\* than the clock, main[k] becomes (v, ttl) whatever k had before and no
\* other key changes; when ttl is not later than the clock, main and
\* keys_with_ttl stay as they are, whether or not k has an entry.
C24_InsertOverwrites ==
    [][Processes("Insert") =>
         LET m == Head(mailbox).request
         IN  IF m.ttl = None \/ Unwrap(m.ttl) > now
             THEN /\ DOMAIN main_db'.db = DOMAIN main_db.db \cup {m.key}
                  /\ main_db'.db[m.key] = DbValue(m.value, m.ttl)
                  /\ \A k \in DOMAIN main_db.db \ {m.key} : main_db'.db[k] = main_db.db[k]
             ELSE main_db' = main_db]_vars

\* an Insert without TTL has replaced an entry that had a TTL: the key is
\* still in keys_with_ttl, which only an Insert with a TTL puts there
C24_Witness ==
    \E k \in Keys :
        /\ applied[k] # None
        /\ Unwrap(applied[k]).ttl = None
        /\ k \in DOMAIN main_db.db
        /\ main_db.db[k] = DbValue(Unwrap(applied[k]).value, None)
        /\ k \in main_db.keys_with_ttl

\* the entry of k in main has a TTL that has elapsed at clock reading t
Elapsed(s, k, t) == HasTtl(s, k) /\ Unwrap(s.db[k].ttl_since_unix_epoch_in_millis) < t

\* C25: an entry whose TTL has elapsed is still in main, and its key in
\* keys_with_ttl, after every step except the actor's processing of a Get
\* or a Remove of its key or of a Clear.
C25_ExpiredEntryStays ==
    [][\A k \in DbKeys :
          Elapsed(main_db, k, now) =>
              \/ /\ k \in DOMAIN main_db'.db
                 /\ main_db'.db[k] = main_db.db[k]
                 /\ k \in main_db'.keys_with_ttl
              \/ Processes("Get") /\ Head(mailbox).request.key = k
              \/ Processes("Remove") /\ Head(mailbox).request.key = k
              \/ Processes("Clear")]_vars

\* C26: when the actor processes a ContainsKey, or a Get of a key that is
\* absent or whose entry has no TTL or a TTL that has not elapsed, main and
\* keys_with_ttl are the same after the step as before.
C26_ReadsChangeNothing ==
    [][/\ Processes("ContainsKey") => main_db' = main_db
       /\ (Processes("Get") /\ ~Elapsed(main_db, Head(mailbox).request.key, now)) =>
              main_db' = main_db]_vars

\* a Get was answered with an entry that has a TTL, and the entry is still
\* in main and its key in keys_with_ttl
C26_Witness ==
    /\ reply[DbCaller] # None
    /\ Unwrap(reply[DbCaller]) # None
    /\ Unwrap(Unwrap(reply[DbCaller])).kind = "Get"
    /\ Unwrap(Unwrap(reply[DbCaller])).get.ttl_since_unix_epoch_in_millis # None
    /\ seen[DbCaller] # None
    /\ Obs(DbCaller).entry = Some(Unwrap(Unwrap(reply[DbCaller])).get)
    /\ \E k \in DbKeys :
          /\ HasTtl(main_db, k)
          /\ main_db.db[k] = Unwrap(Unwrap(reply[DbCaller])).get
          /\ k \in main_db.keys_with_ttl

\* the response of handler c says that its Set or Delete was turned down
Rejected(r, q) ==
    \/ q.op = "Set" /\ r.status = "KeyExists"
    \/ q.op = "Delete" /\ r.status = "KeyNotFound"

\* C27: the step in which a handler decides on KeyExists for a Set or on
\* KeyNotFound for a Delete sends nothing to the storage actor and leaves
\* main and keys_with_ttl as they are; when that response is written no
\* message of the request is in the mailbox and the key's entry and its
\* place in keys_with_ttl are what the ContainsKey of the request found.
C27_RejectionsStoreNothing ==
    /\ [][\A c \in Clients :
            (hpc[c] = "await" /\ hpc'[c] = "write"
               /\ Rejected(Unwrap(resp'[c]), Req(c))) =>
                (mailbox' = mailbox /\ main_db' = main_db)]_vars
    /\ [](\A c \in Clients :
            (hpc[c] = "write" /\ cur[c] # None /\ Rejected(Resp(c), Req(c))) =>
                /\ mailbox = <<>>
                /\ seen[c] # None
                /\ Obs(c).entry =
                      (IF Req(c).key \in DOMAIN main_db.db
                       THEN Some(main_db.db[Req(c).key]) ELSE None)
                /\ Obs(c).indexed <=> Req(c).key \in main_db.keys_with_ttl
                /\ Req(c).op = "Set" => Obs(c).entry # None
                /\ Req(c).op = "Delete" => Obs(c).entry = None)

\* a Delete of an absent key is about to be answered KeyNotFound after a
\* Set on the key had been answered Ok and a Delete had removed it
C27_Witness ==
    \E c \in Clients :
        /\ Writing(c, "Delete")
        /\ Resp(c).status = "KeyNotFound"
        /\ LastOkIs(Req(c).key, "Delete")

\* the permit the acceptor has taken for the connection it is about to accept
Reserved == IF acceptor = "accept" THEN 1 ELSE 0

\* C28: the available permits never exceed max_connections; while the
\* acceptor serves, the permits that are not available are exactly one per
\* live handler and the one taken for the next accept; a handler that
\* ends, by end-of-file, by the shutdown signal or by an error, returns
\* exactly one permit in that step, and no other step returns a permit.
C28_OnePermitPerHandler ==
    /\ [](permits <= ConnectionLimit(max_connections))
    /\ [](acceptor \in {"acquire", "accept"} =>
            permits + Cardinality(LiveHandlers) + Reserved
                = ConnectionLimit(max_connections))
    /\ [](permits + Cardinality(LiveHandlers) <= ConnectionLimit(max_connections))
    /\ [][\A c \in Clients :
            (Live(c) /\ ~Live(c)') => permits' = permits + 1]_vars
    /\ [][(\A c \in Clients : Live(c) => Live(c)') => permits' <= permits]_vars

\* the server is shutting down, a handler has ended, and every permit is
\* available again
C28_Witness ==
    /\ max_connections # None
    /\ permits = Unwrap(max_connections)
    /\ acceptor = "stopped"
    /\ \E c \in Clients : hpc[c] = "done"

\* C29: a handler is spawned only for the connection at the head of the
\* backlog, by an acceptor that has taken a permit for it; an acceptor
\* that finds no permit free stays where it is and no handler is spawned;
\* and once a permit is free the connection at the head of the backlog is
\* accepted.
C29_AcceptAfterPermit ==
    /\ [][\A c \in Clients :
            (hpc[c] = "none" /\ hpc'[c] # "none") =>
                /\ acceptor = "accept" /\ acceptor' = "acquire"
                /\ backlog # <<>> /\ Head(backlog) = c
                /\ permits' = permits
                /\ permits + Cardinality(LiveHandlers) + 1
                      = ConnectionLimit(max_connections)]_vars
    /\ [][(acceptor = "acquire" /\ permits = 0) =>
            /\ acceptor' = "acquire"
            /\ \A c \in Clients : hpc[c] = "none" => hpc'[c] = "none"]_vars
    /\ \A c \in Clients :
          (acceptor = "acquire" /\ permits > 0 /\ backlog # <<>> /\ Head(backlog) = c)
              ~> (hpc[c] # "none")

\* with one permit, a second connection was accepted after the handler of
\* the first ended, and its handler holds the permit
C29_Witness ==
    \E A \in Clients : \E B \in Clients :
        /\ A < B
        /\ max_connections = Some(1)
        /\ hpc[A] = "done"
        /\ Live(B)
        /\ permits = 0

\* the bytes the decoded frames took from the buffer
RECURSIVE Consumed(_)
Consumed(decoded) ==
    IF decoded = <<>> THEN 0
    ELSE decoded[1].consumed + Consumed(Tail(decoded))

\* C30: when the peer has closed, read_request returns None exactly when
\* every byte that arrived was taken by a whole frame (the buffer is
\* empty), and ResetByPeer exactly when bytes of a frame that never became
\* whole are left in the buffer; in both cases nothing is decoded from the
\* leftover bytes and nothing is decoded afterwards.
C30_EndOfStream ==
    /\ [](codec.closed # None =>
            /\ codec.closed = Some("None") <=> codec.buffer = <<>>
            /\ codec.closed = Some("ResetByPeer") <=> codec.buffer # <<>>
            /\ codec.closed = Some("None") =>
                  /\ codec.fed = Consumed(codec.decoded)
                  /\ \A i \in 1..Len(codec.decoded) : codec.decoded[i].request.ok
            /\ codec.closed = Some("ResetByPeer") =>
                  /\ codec.fed > Consumed(codec.decoded)
                  /\ codec.buffer =
                        SubSeq(codec.stream, Consumed(codec.decoded) + 1, codec.fed)
                  /\ read_request_buffer(codec.buffer).kind = "None")
    /\ [][codec.closed # None => codec' = codec]_vars

\* the peer closed after a whole frame and a part of the next one: the
\* first frame was decoded and the read of the rest ended with ResetByPeer
C30_Witness ==
    /\ codec.closed = Some("ResetByPeer")
    /\ Len(codec.decoded) = 1
    /\ codec.buffer # <<>>

\* the step is the storage actor's, on a message whose reply channel was
\* dropped by its sender
ProcessesUnheard(kind) == Processes(kind) /\ ~Head(mailbox).listening

\* C31: a message whose receiver was dropped is applied all the same (an
\* Insert stores its entry unless its TTL is not later than the clock, a
\* Remove deletes the key from main and keys_with_ttl, a Clear empties
\* both), no reply is delivered to anyone, the message leaves the mailbox,
\* and the actor can take the next message whenever there is one.
C31_DroppedReplyIsDiscarded ==
    /\ [][ProcessesUnheard("Insert") =>
            LET m == Head(mailbox).request
            IN  /\ reply' = reply
                /\ IF m.ttl = None \/ Unwrap(m.ttl) > now
                   THEN /\ m.key \in DOMAIN main_db'.db
                        /\ main_db'.db[m.key] = DbValue(m.value, m.ttl)
                   ELSE main_db' = main_db]_vars
    /\ [][ProcessesUnheard("Remove") =>
            LET m == Head(mailbox).request
            IN  /\ reply' = reply
                /\ DOMAIN main_db'.db = DOMAIN main_db.db \ {m.key}
                /\ main_db'.keys_with_ttl = main_db.keys_with_ttl \ {m.key}]_vars
    /\ [][ProcessesUnheard("Clear") =>
            (reply' = reply /\ main_db' = MainDB_new)]_vars
    /\ [](\A i \in 1..Len(mailbox) :
            mailbox[i].listening <=> mailbox[i].request.kind \in {"Get", "ContainsKey"})
    /\ [](mailbox # <<>> => ENABLED ActorStep)

\* a Get sent after an Insert, whose reply channel was dropped, has been
\* answered with the entry that the Insert stored
C31_Witness ==
    /\ reply[DbCaller] # None
    /\ Unwrap(reply[DbCaller]) # None
    /\ Unwrap(Unwrap(reply[DbCaller])).kind = "Get"
    /\ \E k \in Keys :
          /\ applied[k] # None
          /\ Unwrap(Unwrap(reply[DbCaller])).get
                = DbValue(Unwrap(applied[k]).value, Unwrap(applied[k]).ttl)
          /\ seen[DbCaller] # None
          /\ Obs(DbCaller).origin = applied[k]

\* the first storage message of handler c's request met the closed channel:
\* the actor never looked at it
MetClosedQueue(c) ==
    /\ db_closed
    /\ cur[c] # None
    /\ Req(c).op # "Flush"
    /\ seen[c] = None
    /\ hpc[c] \in {"send2", "write"}

\* C32: a handler whose request met the closed channel of the storage
\* actor has no response with a status code to write.
C32_ClosedQueueAborts ==
    \A c \in Clients : MetClosedQueue(c) => (hpc[c] # "write" /\ resp[c] = None)

\* handler c is about to answer a Get that it read after a Set of the same
\* key from another connection was answered Ok, and the TTL of that Set had not elapsed when the
\* actor served the Get
GetAfterOk(c) ==
    /\ hpc[c] = "write"
    /\ cur[c] # None /\ Unwrap(cur[c]).op = "Get"
    /\ okAtRead[c] # None
    /\ seen[c] # None
    /\ LET o == Unwrap(okAtRead[c])
       IN  /\ o.by # c
           /\ ~o.past
           /\ o.ttl = None \/ Unwrap(o.ttl) > Unwrap(seen[c]).at

\* C33: a Get read after the Ok response to Set{k,v} was written, with no
\* Delete, no Flush and no expiry of k in between, is answered Ok with v.
C33_GetAfterOkSeesValue ==
    \A c \in Clients :
        GetAfterOk(c) =>
            /\ Unwrap(resp[c]).status = "Ok"
            /\ Unwrap(Unwrap(resp[c]).body.get).value = Unwrap(okAtRead[c]).value

\* handler c is about to answer a Delete with Ok
DeleteOk(c) ==
    /\ hpc[c] = "write"
    /\ cur[c] # None /\ Unwrap(cur[c]).op = "Delete"
    /\ Unwrap(resp[c]).status = "Ok"

\* C34: of the Deletes of a key that was stored once, only one is answered
\* Ok: no Delete is answered Ok after another Delete of the key was.
C34_OneDeleteWins ==
    \A c \in Clients :
        DeleteOk(c) => ~LastOkIs(Unwrap(cur[c]).key, "Delete")

\* the handler of connection c takes the request frame off the connection
ReadsFrame(c) ==
    /\ hpc[c] = "read"
    /\ wire[c] # None
    /\ wire'[c] = None

\* C35: a request that the client library accepted and wrote is taken up
\* by the handler that reads it, which goes on to answer it: the handler
\* does not end on reading the frame.
C35_AcceptedRequestIsServed ==
    [][\A c \in Clients :
         (ReadsFrame(c) /\ asked[c] # None) => (cur'[c] # None /\ Live(c)')]_vars

\* handler c waits for room in the mailbox or for the actor's reply
Waiting(c) == hpc[c] \in {"send", "await", "send2"}

\* C36: without shutdown and I/O failure every request a handler has read
\* is eventually answered, every message in the mailbox is eventually
\* processed, and no handler waits forever for room or for a reply.
C36_EveryRequestAnswered ==
    /\ \A c \in Clients : (cur[c] # None) ~> (cur[c] = None /\ Live(c))
    /\ \A c \in Clients : Waiting(c) ~> ~Waiting(c)
    /\ (mailbox # <<>>) ~> (mailbox = <<>>)

\* a handler waits for room in the mailbox while the message of another
\* handler, which waits for its reply, fills it
C36_Witness ==
    \E c, d \in Clients :
        /\ c # d
        /\ hpc[c] = "send"
        /\ hpc[d] = "await"
        /\ Len(mailbox) = MailboxCapacity

\* the buffer holds a header whose total_frame_length is below 23 + key_length
\* and has been decoded
Understated ==
    /\ codec.input # None
    /\ codec.decoded # <<>>
    /\ codec.fed >= HEADER_SIZE_BYTES
    /\ Unwrap(codec.input).total_frame_length
          < HEADER_SIZE_BYTES + Len(as_bytes(Unwrap(codec.input).key))

\* C37: a header whose total_frame_length is below 23 + key_length decodes
\* to an error or to Incomplete; never to a frame, a crash or a value
\* length that wrapped around.
C37_UnderstatedLengthIsRejected ==
    Understated =>
        /\ codec.decoded[1].kind \in {"Err", "None"}
        /\ ~codec.decoded[1].wrapped

\* C38: after clear() of the DashMap-backed Db, main_db and keys_with_ttl
\* are both empty, whatever the Db held.
C38_ClearEmptiesBoth ==
    cur[DbCaller] = Some(DbRequest_Clear) =>
        /\ DOMAIN main_db.db = {}
        /\ main_db.keys_with_ttl = {}
====
